---- MODULE Spec2Model ----
(***************************************************************************)
(* Delivery queue of the chat client (ChatbotScreen + chatDb).             *)
(*                                                                         *)
(* The record store (SQLite table `messages`) is the variable db, the      *)
(* React state `messages` of the open session is the variable view, and    *)
(* every running call of resendUserMessage is a task with a position (pc). *)
(* A task is suspended at each await of the source: before the 'sending'   *)
(* write ("mark"), while the completion call is outstanding ("flight") and *)
(* before the assistant reply is stored ("store").                         *)
(*                                                                         *)
(* The store runs the statements of its single connection in the order in  *)
(* which they were issued (dbQueue); completion calls return in any order. *)
(*                                                                         *)
(* Message ids are AUTOINCREMENT row ids; created_at is Date.now() at the  *)
(* insert, so the creation order of two rows is the order of their ids and *)
(* the model uses the id wherever the source orders by created_at.         *)
(***************************************************************************)
EXTENDS Integers, Sequences, FiniteSets, TLC

\* ---------------------------------------------------------------- bounds
MaxMsgs == 4          \* rows ever inserted into `messages`
MaxUserMsgs == 2      \* user rows ever inserted
MaxManual == 1        \* manual retries that may run at the same time
NumPasses == 2        \* activations of retryQueuedMessages the model can hold
MaxTurnMsgs == 5      \* messages in a list handed to buildTurns
MaxRestarts == 1      \* times the process is stopped and started again
MaxSessions == 2      \* rows ever inserted into `sessions`
MaxImages == 2        \* rows ever inserted into `images`
MaxCalls == 4         \* user operations started in the sequential view

\* ---------------------------------------------------------------- program constants
MAX_AUTO_RETRY == 3

OpenSession == 1                          \* the session the screen shows
OtherSession == 2                         \* a session that is not open
FG == 0                                   \* the send / edit-resend flow (guarded by `loading`)
PassSlots == 1..NumPasses                 \* one task slot per activation of the replay routine
ManualSlots == (NumPasses + 1)..(NumPasses + MaxManual)
Slots == {FG} \cup PassSlots \cup ManualSlots

VARIABLES
  db,                 \* table messages: id -> row
  nextId,             \* next AUTOINCREMENT id
  currentSessionId,   \* React state currentSessionId
  view,               \* React state messages: id -> in-memory record
  loading,            \* React state loading
  retryingQueuedRef,  \* retryingQueuedRef.current
  passes,             \* activations of retryQueuedMessages
  tasks,              \* running calls of resendUserMessage
  dbQueue,            \* statements issued to the store and not yet completed, oldest first
  rawMessages,        \* the list handed to buildTurns (the turn builder studied on its own)
  turns,              \* useMemo(() => buildTurns(messages)): the turns built from that list
  turnVersionIndices, \* React state turnVersionIndices: anchor id -> stored index
  sessions,           \* table sessions: id -> row
  images,             \* table images: id -> row
  seq,                \* AUTOINCREMENT counters of sessions and images; operations started
  remote,             \* session ids the backend holds a context for
  call,               \* the handler or service call in progress in the sequential view
  restarts            \* how often the process has been stopped and started again

\* the state of the delivery queue and the state of the turn view
deliveryVars == <<db, nextId, currentSessionId, view, loading, retryingQueuedRef, passes,
                  tasks, dbQueue>>
turnVars == <<rawMessages, turns, turnVersionIndices>>
storeVars == <<sessions, images, seq, remote, call>>

vars == <<db, nextId, currentSessionId, view, loading, retryingQueuedRef, passes, tasks,
          dbQueue, rawMessages, turns, turnVersionIndices, sessions, images, seq, remote,
          call, restarts>>

NoTask == [pc |-> "idle", id |-> 0, rc |-> 0, parent |-> 0, session |-> 0,
           force |-> FALSE, origin |-> "none", ctx |-> 0]
NoPass == [pc |-> "idle", snap |-> <<>>, ctx |-> 0]

\* no handler is running. A running handler keeps the message it delivers (id, rc, parent,
\* session, force), the assistant message it was started on (ai), the image rows it saved
\* or was handed back (imgs), the store as it was when its store call began (before), and
\* what it handed back to its caller (result, backendCleared).
NoCall == [op |-> "none", pc |-> "idle", id |-> 0, rc |-> 0, parent |-> 0, session |-> 0,
           force |-> FALSE, ai |-> 0, imgs |-> {}, before |-> <<>>, result |-> "none",
           backendCleared |-> TRUE]

\* ---------------------------------------------------------------- helpers
Min(a, b) == IF a < b THEN a ELSE b

RECURSIVE SortedSeq(_)
\* the ids of S in ascending creation order (ORDER BY created_at ASC / sort by created_at)
SortedSeq(S) ==
  IF S = {} THEN <<>>
  ELSE LET m == CHOOSE x \in S : \A y \in S : x <= y
       IN <<m>> \o SortedSeq(S \ {m})

\* ---------------------------------------------------------------- record store (database.js)
\* an insert that gives every row the initial status of a user row
addMessage_AlwaysSending(d, id, sessionId, role, parentMessageId, replyTo) ==
  d @@ (id :> [role |-> role, session |-> sessionId, parent |-> parentMessageId,
               status |-> "sending", rc |-> 0, replyTo |-> replyTo])

\* chatDb.addMessage: status 'sending' for a user row, 'sent' for an assistant row, retry_count 0.
\* replyTo is history only: the user message whose delivery produced an assistant row.
addMessage(d, id, sessionId, role, parentMessageId, replyTo) ==
  d @@ (id :> [role |-> role, session |-> sessionId, parent |-> parentMessageId,
               status |-> IF role = "user" THEN "sending" ELSE "sent",
               rc |-> 0, replyTo |-> replyTo])

\* a status write that reports success and stores nothing
updateMessageStatus_Lost(d, messageId, status, retryCount) == d

\* chatDb.updateMessageStatus with a retryCount: UPDATE ... WHERE id = ? (no row, no change)
updateMessageStatus(d, messageId, status, retryCount) ==
  IF messageId \in DOMAIN d
  THEN [d EXCEPT ![messageId].status = status, ![messageId].rc = retryCount]
  ELSE d

\* a WHERE clause that filters on "not delivered" instead of strictly on 'queued'
QueuedSelected_Undelivered(d, i) == d[i].role = "user" /\ d[i].status \in {"queued", "failed"}

\* the WHERE clause of chatDb.listQueuedUserMessages
QueuedSelected(d, i) == d[i].role = "user" /\ d[i].status = "queued"

\* a queue query that hands back the selected rows newest first
listQueuedUserMessages_NewestFirst(d) ==
  LET ids == SortedSeq({i \in DOMAIN d : QueuedSelected(d, i)})
  IN [k \in 1..Len(ids) |->
        [id |-> ids[Len(ids) + 1 - k], rc |-> d[ids[Len(ids) + 1 - k]].rc,
         parent |-> d[ids[Len(ids) + 1 - k]].parent,
         session |-> d[ids[Len(ids) + 1 - k]].session]]

\* chatDb.listQueuedUserMessages: the selected rows, oldest first
listQueuedUserMessages(d) ==
  LET ids == SortedSeq({i \in DOMAIN d : QueuedSelected(d, i)})
  IN [k \in 1..Len(ids) |->
        [id |-> ids[k], rc |-> d[ids[k]].rc, parent |-> d[ids[k]].parent,
         session |-> d[ids[k]].session]]

\* ---------------------------------------------------------------- in-memory view (ChatbotScreen)
\* updateMessageStatusInState: map over the list, replace status and retry_count of the id
updateMessageStatusInState(v, messageId, status, retryCount) ==
  IF messageId \in DOMAIN v
  THEN [v EXCEPT ![messageId].status = status, ![messageId].rc = retryCount]
  ELSE v

\* the object the store hands back for a row; pmi is the in-memory field parentMessageId,
\* which no row has until handleRegenerate sets it (0: undefined)
ViewRecord(d, id) ==
  [role |-> d[id].role, session |-> d[id].session, parent |-> d[id].parent,
   status |-> d[id].status, rc |-> d[id].rc, pmi |-> 0]

\* buildTurns: the anchors (own id of a parent-less user message, or a referenced parent id)
TurnAnchors(v) ==
  {i \in DOMAIN v : v[i].role = "user" /\ v[i].parent = 0}
    \cup {v[i].parent : i \in {j \in DOMAIN v : v[j].parent # 0}}

\* buildTurns: user versions of an anchor, sorted by created_at
TurnUserVersions(v, a) ==
  SortedSeq({i \in DOMAIN v : v[i].role = "user" /\
               ((i = a /\ v[i].parent = 0) \/ v[i].parent = a)})

\* buildTurns: assistant versions of an anchor, sorted by created_at
TurnAssistantVersions(v, a) ==
  SortedSeq({i \in DOMAIN v : v[i].role = "assistant" /\ v[i].parent = a})

\* buildTurns: pairedCount and the exposed (safe) lists
PairedCount(v, a) == Min(Len(TurnUserVersions(v, a)), Len(TurnAssistantVersions(v, a)))

\* exposed user versions that are never truncated to the paired count
SafeUserVersions_All(v, a) == TurnUserVersions(v, a)

SafeUserVersions(v, a) ==
  IF PairedCount(v, a) > 0
  THEN SubSeq(TurnUserVersions(v, a), 1, PairedCount(v, a))
  ELSE TurnUserVersions(v, a)

SafeAssistantVersions(v, a) ==
  IF PairedCount(v, a) > 0
  THEN SubSeq(TurnAssistantVersions(v, a), 1, PairedCount(v, a))
  ELSE TurnAssistantVersions(v, a)

\* a default index that always points at the oldest version
DefaultIndex_First(v, a) == 0

\* buildTurns: defaultIndex (0-based)
DefaultIndex(v, a) ==
  IF Len(SafeAssistantVersions(v, a)) > 0 THEN Len(SafeAssistantVersions(v, a)) - 1 ELSE 0

\* turn rendering: totalVersions = assistantVersions.length || 1
TotalVersions(v, a) ==
  IF Len(SafeAssistantVersions(v, a)) > 0 THEN Len(SafeAssistantVersions(v, a)) ELSE 1

\* turn rendering: the user versions an index in 0..totalVersions-1 can bring up
NavigableUsers(v, a) ==
  {SafeUserVersions(v, a)[k] : k \in 1..Min(Len(SafeUserVersions(v, a)), TotalVersions(v, a))}

\* turn rendering: userMsg = userVersions[currentIndex] || userVersions[0], at the default index
DisplayedUser(v) ==
  {IF DefaultIndex(v, a) + 1 <= Len(SafeUserVersions(v, a))
   THEN SafeUserVersions(v, a)[DefaultIndex(v, a) + 1]
   ELSE SafeUserVersions(v, a)[1] :
     a \in {b \in TurnAnchors(v) : Len(SafeUserVersions(v, b)) > 0}}

\* ---------------------------------------------------------------- buildTurns on a message list
\* the list as a table id -> message, for the operators above
ListView(raw) ==
  [i \in {raw[k].id : k \in DOMAIN raw} |->
     LET k == CHOOSE j \in DOMAIN raw : raw[j].id = i
     IN [role |-> raw[k].role, parent |-> raw[k].parent]]

\* anchorId is already a key of the Map `anchors`
Registered(ord, anchorId) == \E j \in DOMAIN ord : ord[j] = anchorId

\* first forEach: every user message without parent_message_id registers its own id
RECURSIVE firstPass(_, _, _)
firstPass(raw, k, ord) ==
  IF k > Len(raw) THEN ord
  ELSE firstPass(raw, k + 1,
         IF raw[k].role = "user" /\ raw[k].parent = 0 /\ ~Registered(ord, raw[k].id)
         THEN Append(ord, raw[k].id)
         ELSE ord)

\* second forEach: a user or assistant message with a parent registers the parent id if
\* it is not a key yet
RECURSIVE secondPass(_, _, _)
secondPass(raw, k, ord) ==
  IF k > Len(raw) THEN ord
  ELSE secondPass(raw, k + 1,
         IF raw[k].parent # 0 /\ ~Registered(ord, raw[k].parent)
         THEN Append(ord, raw[k].parent)
         ELSE ord)

\* one scan that registers an anchor where the list first shows it or first refers to it
RECURSIVE singlePass(_, _, _)
singlePass(raw, k, ord) ==
  IF k > Len(raw) THEN ord
  ELSE LET a == IF raw[k].parent # 0 THEN raw[k].parent
                ELSE IF raw[k].role = "user" THEN raw[k].id ELSE 0
       IN singlePass(raw, k + 1,
            IF a # 0 /\ ~Registered(ord, a) THEN Append(ord, a) ELSE ord)

\* a turn order taken from one scan of the list
order_SinglePass(raw) == singlePass(raw, 1, <<>>)

\* buildTurns: the array `order` after the two forEach loops
order(raw) == secondPass(raw, 1, firstPass(raw, 1, <<>>))

\* buildTurns: order.map(...)
buildTurns(raw) ==
  [k \in 1..Len(order(raw)) |->
     LET anchorUserId == order(raw)[k]
     IN [anchorUserId |-> anchorUserId,
         userVersions |-> SafeUserVersions(ListView(raw), anchorUserId),
         assistantVersions |-> SafeAssistantVersions(ListView(raw), anchorUserId),
         defaultIndex |-> DefaultIndex(ListView(raw), anchorUserId)]]

\* handleTurnVersionChange: an index that is moved without the Math.max / Math.min clamp
NewIndex_Unclamped(currentIndex, direction, totalVersions) ==
  IF direction = "prev" THEN currentIndex - 1 ELSE currentIndex + 1

\* handleTurnVersionChange: newIndex
NewIndex(currentIndex, direction, totalVersions) ==
  IF direction = "prev"
  THEN (IF currentIndex - 1 > 0 THEN currentIndex - 1 ELSE 0)
  ELSE Min(totalVersions - 1, currentIndex + 1)

\* handleTurnVersionChange: currentIndex, the stored index or the last version
CurrentIndex(prev, anchorUserId, totalVersions) ==
  IF anchorUserId \in DOMAIN prev THEN prev[anchorUserId] ELSE totalVersions - 1

\* { ...prev, [anchorUserId]: newIndex }
WithIndex(prev, anchorUserId, newIndex) ==
  [a \in DOMAIN prev \cup {anchorUserId} |-> IF a = anchorUserId THEN newIndex ELSE prev[a]]

\* an updater that always returns a new map holding the computed index
handleTurnVersionChange_AlwaysWrites(prev, anchorUserId, direction, totalVersions) ==
  WithIndex(prev, anchorUserId,
            NewIndex(CurrentIndex(prev, anchorUserId, totalVersions), direction, totalVersions))

\* handleTurnVersionChange: the value of turnVersionIndices after the call; `prev` itself
\* when the call returns early or the updater hands back its argument
handleTurnVersionChange(prev, anchorUserId, direction, totalVersions) ==
  IF totalVersions <= 1 THEN prev
  ELSE IF NewIndex(CurrentIndex(prev, anchorUserId, totalVersions), direction, totalVersions)
            = CurrentIndex(prev, anchorUserId, totalVersions)
       THEN prev
       ELSE WithIndex(prev, anchorUserId,
                      NewIndex(CurrentIndex(prev, anchorUserId, totalVersions), direction,
                               totalVersions))

\* ---------------------------------------------------------------- resendUserMessage
\* a reply parented to the delivered version itself instead of to its anchor
AnchorOf_OwnId(parent, id) == id

\* messageRecord.parent_message_id || messageRecord.id
AnchorOf(parent, id) == IF parent # 0 THEN parent ELSE id

\* handleSendEdit: editingMessage.parent_message_id || editingMessage.id
EditAnchorOf(parent, id) == IF parent # 0 THEN parent ELSE id

\* a retry count that an automatic attempt does not increment
NextRetry_NoIncrement(baseRetry, force) == IF force THEN 0 ELSE baseRetry

\* const nextRetry = force ? 0 : baseRetry + 1
NextRetry(baseRetry, force) == IF force THEN 0 ELSE baseRetry + 1

\* a ceiling test that gives up one attempt later
ReachedLimit_OneLater(baseRetry, force) ==
  ~force /\ NextRetry(baseRetry, force) > MAX_AUTO_RETRY

\* const reachedLimit = !force && nextRetry >= MAX_AUTO_RETRY
ReachedLimit(baseRetry, force) == ~force /\ NextRetry(baseRetry, force) >= MAX_AUTO_RETRY

\* const nextStatus = reachedLimit ? 'failed' : 'queued'
NextStatus(baseRetry, force) == IF ReachedLimit(baseRetry, force) THEN "failed" ELSE "queued"

\* a catch block that gives up on every failure
FailureStatus_AlwaysFailed(r, outcome) == "failed"

\* the status and retry_count the catch block writes for a failure
FailureStatus(r, outcome) ==
  IF outcome = "net" THEN NextStatus(r.rc, r.force) ELSE "failed"

FailureRetry(r, outcome) ==
  IF outcome = "net" THEN NextRetry(r.rc, r.force) ELSE r.rc

\* a call resendUserMessage(messageRecord, {force}) made while currentSessionId is ctx
NewTask(rec, force, origin, ctx) ==
  [pc |-> "mark", id |-> rec.id, rc |-> rec.rc, parent |-> rec.parent,
   session |-> rec.session, force |-> force, origin |-> origin, ctx |-> ctx]

\* `if (sessionId === currentSessionId)` of the closure the call was made from
InState(r) == r.session = r.ctx

\* bound: a row may be inserted only while an id below the cap is left for it and for
\* every reply that is waiting to be stored
HasRoom == nextId + Cardinality({t \in Slots : tasks[t].pc = "store"}) <= MaxMsgs

\* bound: the user may still send or edit-resend
MaySend == Cardinality({i \in DOMAIN db : db[i].role = "user"}) < MaxUserMsgs

\* ---------------------------------------------------------------- initial state
\* no list has been handed to the turn builder and no version index is stored
TurnsIdle ==
  /\ rawMessages = <<>>
  /\ turns = <<>>
  /\ turnVersionIndices = <<>>

\* no session record is studied, no call is in progress, the process has never restarted
StoreIdle ==
  /\ sessions = <<>>
  /\ images = <<>>
  /\ seq = [sessions |-> 0, images |-> 0, calls |-> 0]
  /\ remote = {}
  /\ call = NoCall
  /\ restarts = 0

\* The open session is empty. The store is empty too, or it holds one message that was
\* queued in the other session before this one was opened.
Init ==
  /\ TurnsIdle
  /\ StoreIdle
  /\ \/ /\ db = <<>>
        /\ nextId = 1
     \/ \E r \in 0..(MAX_AUTO_RETRY - 1) :
          /\ db = 1 :> [role |-> "user", session |-> OtherSession, parent |-> 0,
                        status |-> "queued", rc |-> r, replyTo |-> 0]
          /\ nextId = 2
  /\ currentSessionId = OpenSession
  /\ view = <<>>
  /\ loading = FALSE
  /\ retryingQueuedRef = FALSE
  /\ passes = [p \in PassSlots |-> NoPass]
  /\ tasks = [t \in Slots |-> NoTask]
  /\ dbQueue = <<>>

\* ---------------------------------------------------------------- how a call of resendUserMessage ends
\* The caller resumes in the same turn of the event loop: handleSend / handleSendEdit clear
\* `loading`; retryQueuedMessages takes the next message of its snapshot or, after the last
\* one, runs its finally block.
\* a replay loop that does not advance in its snapshot
TaskEnds_KeepsSnapshot(t, q) ==
  IF t = FG
  THEN /\ tasks' = [tasks EXCEPT ![t] = NoTask]
       /\ loading' = FALSE
       /\ dbQueue' = q
       /\ UNCHANGED <<passes, retryingQueuedRef>>
  ELSE IF t \in PassSlots
  THEN IF passes[t].snap = <<>>
       THEN /\ tasks' = [tasks EXCEPT ![t] = NoTask]
            /\ passes' = [passes EXCEPT ![t] = NoPass]
            /\ retryingQueuedRef' = FALSE
            /\ dbQueue' = q
            /\ UNCHANGED loading
       ELSE /\ tasks' = [tasks EXCEPT ![t] =
                           NewTask(Head(passes[t].snap), FALSE, "replay", passes[t].ctx)]
            /\ dbQueue' = Append(q, t)
            /\ UNCHANGED <<loading, passes, retryingQueuedRef>>
  ELSE /\ tasks' = [tasks EXCEPT ![t] = NoTask]
       /\ dbQueue' = q
       /\ UNCHANGED <<loading, passes, retryingQueuedRef>>

\* q is the statement queue once the step's own statement has completed.
TaskEnds(t, q) ==
  IF t = FG
  THEN /\ tasks' = [tasks EXCEPT ![t] = NoTask]
       /\ loading' = FALSE
       /\ dbQueue' = q
       /\ UNCHANGED <<passes, retryingQueuedRef>>
  ELSE IF t \in PassSlots
  THEN IF passes[t].snap = <<>>
       THEN /\ tasks' = [tasks EXCEPT ![t] = NoTask]
            /\ passes' = [passes EXCEPT ![t] = NoPass]
            /\ retryingQueuedRef' = FALSE
            /\ dbQueue' = q
            /\ UNCHANGED loading
       ELSE /\ tasks' = [tasks EXCEPT ![t] =
                           NewTask(Head(passes[t].snap), FALSE, "replay", passes[t].ctx)]
            /\ passes' = [passes EXCEPT ![t].snap = Tail(passes[t].snap)]
            /\ dbQueue' = Append(q, t)
            /\ UNCHANGED <<loading, retryingQueuedRef>>
  ELSE /\ tasks' = [tasks EXCEPT ![t] = NoTask]
       /\ dbQueue' = q
       /\ UNCHANGED <<loading, passes, retryingQueuedRef>>

\* The call rejects (a status write outside its try block, or inside its catch block,
\* throws): handleSend / handleSendEdit clear `loading` in their finally block;
\* retryQueuedMessages leaves its loop for the catch and finally blocks, dropping the rest
\* of its snapshot.
TaskRejects(t, q) ==
  /\ tasks' = [tasks EXCEPT ![t] = NoTask]
  /\ dbQueue' = q
  /\ loading' = IF t = FG THEN FALSE ELSE loading
  /\ passes' = IF t \in PassSlots THEN [passes EXCEPT ![t] = NoPass] ELSE passes
  /\ retryingQueuedRef' = IF t \in PassSlots THEN FALSE ELSE retryingQueuedRef

\* chatDb.updateMessageStatus followed by updateMessageStatusInState under the session test
WriteStatus(r, status, retryCount) ==
  /\ db' = updateMessageStatus(db, r.id, status, retryCount)
  /\ view' = IF InState(r)
             THEN updateMessageStatusInState(view, r.id, status, retryCount)
             ELSE view

\* ---------------------------------------------------------------- user operations
\* handleSend, text-only branch: insert the user row, append it to the list, start the delivery
HandleSend ==
  /\ ~loading
  /\ HasRoom
  /\ MaySend
  /\ LET rec == [id |-> nextId, rc |-> 0, parent |-> 0, session |-> currentSessionId]
         d2 == addMessage(db, nextId, currentSessionId, "user", 0, 0)
     IN /\ db' = d2
        /\ view' = view @@ (nextId :> ViewRecord(d2, nextId))
        /\ tasks' = [tasks EXCEPT ![FG] = NewTask(rec, FALSE, "send", currentSessionId)]
  /\ nextId' = nextId + 1
  /\ loading' = TRUE
  /\ dbQueue' = Append(dbQueue, FG)
  /\ UNCHANGED <<currentSessionId, turnVars, storeVars, restarts, retryingQueuedRef, passes>>

\* handleSendEdit: a new user version under the anchor of the edited message, sent with force
HandleSendEdit(u) ==
  /\ ~loading
  /\ HasRoom
  /\ MaySend
  /\ u \in DisplayedUser(view)
  /\ LET anchorUserId == EditAnchorOf(view[u].parent, u)
         rec == [id |-> nextId, rc |-> 0, parent |-> anchorUserId, session |-> currentSessionId]
         d2 == addMessage(db, nextId, currentSessionId, "user", anchorUserId, 0)
     IN /\ db' = d2
        /\ view' = view @@ (nextId :> ViewRecord(d2, nextId))
        /\ tasks' = [tasks EXCEPT ![FG] = NewTask(rec, TRUE, "edit", currentSessionId)]
  /\ nextId' = nextId + 1
  /\ loading' = TRUE
  /\ dbQueue' = Append(dbQueue, FG)
  /\ UNCHANGED <<currentSessionId, turnVars, storeVars, restarts, retryingQueuedRef, passes>>

\* onUserRetry -> handleManualRetryUserMessage(userMsg): offered while the displayed
\* record is queued or failed; the record passed on is the in-memory one
HandleManualRetryUserMessage(u, t) ==
  /\ t \in ManualSlots
  /\ tasks[t].pc = "idle"
  /\ \A t2 \in ManualSlots : t2 < t => tasks[t2].pc # "idle"
  /\ u \in DisplayedUser(view)
  /\ view[u].status \in {"queued", "failed"}
  /\ LET rec == [id |-> u, rc |-> view[u].rc, parent |-> view[u].parent,
                 session |-> view[u].session]
     IN tasks' = [tasks EXCEPT ![t] = NewTask(rec, TRUE, "manual", currentSessionId)]
  /\ dbQueue' = Append(dbQueue, t)
  /\ UNCHANGED <<db, nextId, currentSessionId, turnVars, storeVars, restarts, view, loading, retryingQueuedRef, passes>>

\* ---------------------------------------------------------------- resendUserMessage, step by step
\* lines 181-185: write 'sending' with the record's retry_count, mirror it, issue the call
Mark(t) ==
  /\ tasks[t].pc = "mark"
  /\ Head(dbQueue) = t
  /\ dbQueue' = Tail(dbQueue)
  /\ WriteStatus(tasks[t], "sending", tasks[t].rc)
  /\ tasks' = [tasks EXCEPT ![t].pc = "flight"]
  /\ UNCHANGED <<nextId, currentSessionId, turnVars, storeVars, restarts, loading, retryingQueuedRef, passes>>

\* lines 187-195: the call returns a reply; 'sent' with retry_count 0 is written and mirrored
RespondOk(t) ==
  /\ tasks[t].pc = "flight"
  /\ HasRoom
  /\ WriteStatus(tasks[t], "sent", 0)
  /\ tasks' = [tasks EXCEPT ![t].pc = "store"]
  /\ dbQueue' = Append(dbQueue, t)
  /\ UNCHANGED <<nextId, currentSessionId, turnVars, storeVars, restarts, loading, retryingQueuedRef, passes>>

\* lines 206-223: the call throws; outcome "net" is error.code === 'NETWORK_ERROR',
\* outcome "biz" any other error
RespondFail(t, outcome) ==
  /\ tasks[t].pc = "flight"
  /\ outcome \in {"net", "biz"}
  /\ WriteStatus(tasks[t], FailureStatus(tasks[t], outcome), FailureRetry(tasks[t], outcome))
  /\ TaskEnds(t, dbQueue)
  /\ UNCHANGED <<nextId, currentSessionId, turnVars, storeVars, restarts>>

\* ---------------------------------------------------------------- the completion call (api.js)
\* What fetch hands back: an HTTP response (its status, its body, and whether the error
\* text the server put in the body mentions a timeout), or an exception (what its message
\* mentions and its name).
Responses ==
  {[kind |-> "http", status |-> 200, body |-> b, mentions |-> "none", name |-> "none"] :
     b \in {"reply", "noreply", "nonjson"}}
  \cup {[kind |-> "http", status |-> st, body |-> "noreply", mentions |-> w, name |-> "none"] :
          st \in {400, 500}, w \in {"none", "timeout"}}
  \cup {[kind |-> "throw", status |-> 0, body |-> "none", mentions |-> w, name |-> n] :
          w \in {"Network request failed", "timeout", "none"}, n \in {"TypeError", "AbortError"}}

\* handleResponse: a status outside 2xx throws an Error whose message carries the server's
\* error text; otherwise the parsed body is returned, {} when it is not JSON
handleResponse(res) ==
  IF res.status < 200 \/ res.status > 299
  THEN [threw |-> TRUE, mentions |-> res.mentions, name |-> "Error", reply |-> FALSE]
  ELSE [threw |-> FALSE, mentions |-> "none", name |-> "none", reply |-> res.body = "reply"]

\* handleNetworkError: the code of the error it throws, decided on the message and the name
handleNetworkError(mentions, name) ==
  IF mentions \in {"Network request failed", "timeout"}
  THEN "NETWORK_ERROR"
  ELSE "none"

\* sendMessageToBackend: "ok" when it returns, else the class of the error it throws
\* ("net" is error.code === 'NETWORK_ERROR')
sendMessageToBackend(res) ==
  LET r == IF res.kind = "http"
           THEN handleResponse(res)
           ELSE [threw |-> TRUE, mentions |-> res.mentions, name |-> res.name, reply |-> FALSE]
  IN IF ~r.threw THEN "ok"
     ELSE IF handleNetworkError(r.mentions, r.name) = "NETWORK_ERROR" THEN "net" ELSE "biz"

\* the call of a delivery completes with the response res
Completion(t, res) ==
  IF sendMessageToBackend(res) = "ok"
  THEN RespondOk(t)
  ELSE RespondFail(t, sendMessageToBackend(res))

\* lines 197-205: the assistant row is inserted under the anchor and appended to the list
StoreReply(t) ==
  /\ tasks[t].pc = "store"
  /\ Head(dbQueue) = t
  /\ LET r == tasks[t]
         d2 == addMessage(db, nextId, r.session, "assistant", AnchorOf(r.parent, r.id), r.id)
     IN /\ db' = d2
        /\ view' = IF InState(r) THEN view @@ (nextId :> ViewRecord(d2, nextId)) ELSE view
  /\ nextId' = nextId + 1
  /\ TaskEnds(t, Tail(dbQueue))
  /\ UNCHANGED <<currentSessionId, turnVars, storeVars, restarts>>

\* lines 197-222: the insert throws; the catch block treats it as a non-network error
StoreReplyFails(t) ==
  /\ tasks[t].pc = "store"
  /\ Head(dbQueue) = t
  /\ WriteStatus(tasks[t], FailureStatus(tasks[t], "store"), FailureRetry(tasks[t], "store"))
  /\ TaskEnds(t, Tail(dbQueue))
  /\ UNCHANGED <<nextId, currentSessionId, turnVars, storeVars, restarts>>

\* chatDb.updateMessageStatus throws: the 'sending' write of line 181 (outside the try
\* block), or the write of the catch block after a failed call, a failed 'sent' write or
\* a failed insert of the reply. Nothing is written and the call rejects.
StatusWriteFails(t) ==
  /\ tasks[t].pc \in {"mark", "flight", "store"}
  /\ tasks[t].pc \in {"mark", "store"} => Head(dbQueue) = t
  /\ TaskRejects(t, IF tasks[t].pc = "flight" THEN dbQueue ELSE Tail(dbQueue))
  /\ UNCHANGED <<db, nextId, currentSessionId, turnVars, storeVars, restarts, view>>

\* ---------------------------------------------------------------- retryQueuedMessages
\* a replay routine without the early return
ReplayGuard_Absent(ref) == FALSE

\* `if (retryingQueuedRef.current) return;`
ReplayGuard(ref) == ref

\* NetInfo listener with connected = true calls retryQueuedMessages: it returns at once
\* while the guard is set; otherwise it sets the guard and issues the queue query
NetInfoConnected ==
  IF ReplayGuard(retryingQueuedRef)
  THEN UNCHANGED vars
  ELSE /\ \E p \in PassSlots :
            /\ passes[p].pc = "idle"
            /\ \A q \in PassSlots : q < p => passes[q].pc # "idle"
            /\ passes' = [passes EXCEPT ![p] =
                             [pc |-> "listing", snap |-> <<>>, ctx |-> currentSessionId]]
            /\ dbQueue' = Append(dbQueue, p)
       /\ retryingQueuedRef' = TRUE
       /\ UNCHANGED <<db, nextId, currentSessionId, turnVars, storeVars, restarts, view, loading, tasks>>

\* the queue query returns: an empty result ends the pass (finally), otherwise the first
\* message of the snapshot is handed to resendUserMessage
ReplayList(p) ==
  /\ passes[p].pc = "listing"
  /\ Head(dbQueue) = p
  /\ LET queued == listQueuedUserMessages(db)
     IN IF queued = <<>>
        THEN /\ passes' = [passes EXCEPT ![p] = NoPass]
             /\ retryingQueuedRef' = FALSE
             /\ dbQueue' = Tail(dbQueue)
             /\ UNCHANGED tasks
        ELSE /\ passes' = [passes EXCEPT ![p].pc = "running", ![p].snap = Tail(queued)]
             /\ tasks' = [tasks EXCEPT ![p] = NewTask(Head(queued), FALSE, "replay", passes[p].ctx)]
             /\ dbQueue' = Append(Tail(dbQueue), p)
             /\ UNCHANGED retryingQueuedRef
  /\ UNCHANGED <<db, nextId, currentSessionId, turnVars, storeVars, restarts, view, loading>>

\* the queue query throws: catch logs, finally releases the guard
ReplayListFails(p) ==
  /\ passes[p].pc = "listing"
  /\ Head(dbQueue) = p
  /\ dbQueue' = Tail(dbQueue)
  /\ passes' = [passes EXCEPT ![p] = NoPass]
  /\ retryingQueuedRef' = FALSE
  /\ UNCHANGED <<db, nextId, currentSessionId, turnVars, storeVars, restarts, view, loading, tasks>>

\* ---------------------------------------------------------------- specifications
Next ==
  \/ HandleSend
  \/ \E u \in DOMAIN view : HandleSendEdit(u)
  \/ \E u \in DOMAIN view, t \in ManualSlots : HandleManualRetryUserMessage(u, t)
  \/ \E t \in Slots : Mark(t)
  \/ \E t \in Slots, res \in Responses : Completion(t, res)
  \/ \E t \in Slots : StoreReply(t)
  \/ \E t \in Slots : StoreReplyFails(t)
  \/ \E t \in Slots : StatusWriteFails(t)
  \/ NetInfoConnected
  \/ \E p \in PassSlots : ReplayList(p)
  \/ \E p \in PassSlots : ReplayListFails(p)

Spec == Init /\ [][Next]_vars

\* Persistent network failure: every completion call fails with a network-classified
\* error. The event loop runs every continuation that is ready (weak fairness of the task
\* steps and of the queue query) and connectivity events keep arriving.
NextNetDown ==
  \/ HandleSend
  \/ \E u \in DOMAIN view : HandleSendEdit(u)
  \/ \E u \in DOMAIN view, t \in ManualSlots : HandleManualRetryUserMessage(u, t)
  \/ \E t \in Slots : Mark(t)
  \/ \E t \in Slots : RespondFail(t, "net")
  \/ NetInfoConnected
  \/ \E p \in PassSlots : ReplayList(p)

FairNetDown ==
  /\ \A t \in Slots : WF_vars(Mark(t))
  /\ \A t \in Slots : WF_vars(RespondFail(t, "net"))
  /\ WF_vars(NetInfoConnected)
  /\ \A p \in PassSlots : WF_vars(ReplayList(p))

SpecNetDown == Init /\ [][NextNetDown]_vars /\ FairNetDown

\* Scenario A: messages are sent while the network is down (the call of the send flow
\* fails with a network-classified error), connectivity comes back and the calls of the
\* replay passes succeed. A message is sent only while ids are left for it, for its reply
\* and for the reply of every message still unanswered.
Unanswered ==
  {m \in DOMAIN db : db[m].role = "user" /\
      ~\E a \in DOMAIN db : db[a].role = "assistant" /\ db[a].replyTo = m}

RoomForExchange == nextId + Cardinality(Unanswered) + 1 <= MaxMsgs

NextScenarioA ==
  \/ RoomForExchange /\ HandleSend
  \/ \E t \in {FG} \cup PassSlots : Mark(t)
  \/ RespondFail(FG, "net")
  \/ NetInfoConnected
  \/ \E p \in PassSlots : ReplayList(p)
  \/ \E p \in PassSlots : RespondOk(p)
  \/ \E p \in PassSlots : StoreReply(p)

FairScenarioA ==
  /\ \A t \in {FG} \cup PassSlots : WF_vars(Mark(t))
  /\ WF_vars(RespondFail(FG, "net"))
  /\ WF_vars(NetInfoConnected)
  /\ \A p \in PassSlots : WF_vars(ReplayList(p)) /\ WF_vars(RespondOk(p)) /\ WF_vars(StoreReply(p))

SpecScenarioA == Init /\ [][NextScenarioA]_vars /\ FairScenarioA

\* ---------------------------------------------------------------- stop and restart
\* The process is stopped and started again: every piece of React state is back at its
\* useState value, the calls that were running are gone with the statements they had not
\* completed, the store is what had been written, and the screen loads the messages of
\* its session again.
Restart ==
  /\ restarts < MaxRestarts
  /\ restarts' = restarts + 1
  /\ tasks' = [t \in Slots |-> NoTask]
  /\ passes' = [p \in PassSlots |-> NoPass]
  /\ retryingQueuedRef' = FALSE
  /\ loading' = FALSE
  /\ dbQueue' = <<>>
  /\ view' = [i \in {j \in DOMAIN db : db[j].session = currentSessionId} |-> ViewRecord(db, i)]
  /\ UNCHANGED <<db, nextId, currentSessionId, turnVars, storeVars>>

\* The network is reachable in the end and the service answers: a call may still fail on
\* the network, but a call in flight is eventually answered; connectivity events keep
\* coming; the process may stop and restart.
NextRestart ==
  \/ RoomForExchange /\ HandleSend
  \/ \E t \in {FG} \cup PassSlots : Mark(t)
  \/ \E t \in {FG} \cup PassSlots : RespondFail(t, "net")
  \/ \E t \in {FG} \cup PassSlots : RespondOk(t)
  \/ \E t \in {FG} \cup PassSlots : StoreReply(t)
  \/ NetInfoConnected
  \/ \E p \in PassSlots : ReplayList(p)
  \/ Restart

FairRestart ==
  /\ \A t \in {FG} \cup PassSlots :
        WF_vars(Mark(t)) /\ WF_vars(RespondOk(t)) /\ WF_vars(StoreReply(t))
  /\ WF_vars(NetInfoConnected)
  /\ \A p \in PassSlots : WF_vars(ReplayList(p))

SpecRestart == Init /\ [][NextRestart]_vars /\ FairRestart

\* ---------------------------------------------------------------- the turn view on its own
\* The message lists the screen can hold: rows in creation order (listMessages orders by
\* created_at, every later message is appended), ids 1..n. A user message has no
\* parent_message_id or, as an edited version, that of an earlier parent-less user message
\* (handleSendEdit); an assistant message has none or the id of an earlier user message
\* (the anchor of the delivery, or the user message a regenerated reply was stored under).
ParentAllowed(role, parent, roleOf, parentOf) ==
  IF parent = 0 THEN TRUE
  ELSE /\ roleOf[parent] = "user"
       /\ role = "user" => parentOf[parent] = 0

MessageLists(n) ==
  {[k \in 1..n |-> [id |-> k, role |-> rp[1][k], parent |-> rp[2][k]]] :
     rp \in {x \in [1..n -> {"user", "assistant"}] \X [1..n -> 0..(n - 1)] :
              \A k \in 1..n :
                 /\ x[2][k] < k
                 /\ ParentAllowed(x[1][k], x[2][k], x[1], x[2])}}

DeliveryIdle ==
  /\ db = <<>>
  /\ nextId = 1
  /\ currentSessionId = OpenSession
  /\ view = <<>>
  /\ loading = FALSE
  /\ retryingQueuedRef = FALSE
  /\ passes = [p \in PassSlots |-> NoPass]
  /\ tasks = [t \in Slots |-> NoTask]
  /\ dbQueue = <<>>

\* the screen has mounted: no list is loaded, no version index is stored
InitTurns ==
  /\ DeliveryIdle
  /\ TurnsIdle
  /\ StoreIdle

\* the session is loaded: setMessages(rawMsgs) with the rows chatDb.listMessages returned
LoadMessages ==
  /\ rawMessages = <<>>
  /\ turnVersionIndices = <<>>
  /\ \E n \in 1..MaxTurnMsgs : rawMessages' \in MessageLists(n)
  /\ turns' = buildTurns(rawMessages')
  /\ UNCHANGED <<turnVersionIndices, deliveryVars, storeVars, restarts>>

\* setMessages((prev) => [...prev, msg]) with a row that addMessage returned
AppendMessage ==
  /\ Len(rawMessages) < MaxTurnMsgs
  /\ \E role \in {"user", "assistant"}, parent \in 0..Len(rawMessages) :
       /\ ParentAllowed(role, parent, [k \in DOMAIN rawMessages |-> rawMessages[k].role],
                        [k \in DOMAIN rawMessages |-> rawMessages[k].parent])
       /\ rawMessages' = Append(rawMessages,
                                [id |-> Len(rawMessages) + 1, role |-> role, parent |-> parent])
  /\ turns' = buildTurns(rawMessages')
  /\ UNCHANGED <<turnVersionIndices, deliveryVars, storeVars, restarts>>

\* the version arrows of a rendered turn: handleTurnVersionChange(anchorUserId, direction,
\* totalVersions) with totalVersions = assistantVersions.length || 1
HandleTurnVersionChange(k, direction) ==
  /\ k \in DOMAIN turns
  /\ Len(turns[k].userVersions) > 0
  /\ turnVersionIndices' =
       handleTurnVersionChange(turnVersionIndices, turns[k].anchorUserId, direction,
                               IF Len(turns[k].assistantVersions) > 0
                               THEN Len(turns[k].assistantVersions) ELSE 1)
  /\ UNCHANGED <<rawMessages, turns, deliveryVars, storeVars, restarts>>

NextTurns ==
  \/ LoadMessages
  \/ AppendMessage
  \/ \E k \in 1..MaxTurnMsgs, direction \in {"prev", "next"} :
       HandleTurnVersionChange(k, direction)

SpecTurns == InitTurns /\ [][NextTurns]_vars

\* ---------------------------------------------------------------- sessions, images, turns
\* The handlers of the screen and the calls of chatService, one at a time: `call` is the
\* handler in progress and its position. The store has no transaction: each statement of
\* a store call takes effect on its own, and each may fail.
DEFAULT_TITLE == "default"                \* the title a session is created with
GENERATED_TITLE == "generated"            \* a title the backend produced

Restrict(f, S) == [i \in S |-> f[i]]

\* chatDb.createSession: INSERT INTO sessions (title, created_at) with the default title
createSession(ss, id) == ss @@ (id :> [title |-> DEFAULT_TITLE])

\* chatDb.updateSessionTitle: UPDATE sessions SET title = ? WHERE id = ?
updateSessionTitle(ss, id, title) ==
  IF id \in DOMAIN ss THEN [ss EXCEPT ![id].title = title] ELSE ss

\* chatDb.listMessages: the rows of the session
listMessages(d, sessionId) ==
  [i \in {j \in DOMAIN d : d[j].session = sessionId} |-> ViewRecord(d, i)]

\* chatDb.addImage: INSERT INTO images (session_id, ...)
addImage(im, id, sessionId) == im @@ (id :> [session |-> sessionId])

\* chatDb.listImages: the image rows of the session
listImages(im, sessionId) == {i \in DOMAIN im : im[i].session = sessionId}

\* chatDb.deleteImage: DELETE FROM images WHERE id = ?
deleteImage(im, id) == Restrict(im, DOMAIN im \ {id})

\* a first statement that deletes nothing
DeleteVersions_None(d, messageId) == d

\* chatDb.deleteMessage, first statement: DELETE FROM messages WHERE parent_message_id = ?
DeleteVersions(d, messageId) == Restrict(d, {i \in DOMAIN d : d[i].parent # messageId})

\* chatDb.deleteMessage, second statement: DELETE FROM messages WHERE id = ?
DeleteRow(d, messageId) == Restrict(d, DOMAIN d \ {messageId})

\* chatDb.deleteMessage when both statements succeed
deleteMessage(d, messageId) == DeleteRow(DeleteVersions(d, messageId), messageId)

\* chatDb.deleteSession, the three DELETE statements
DeleteImagesOf(im, sessionId) == Restrict(im, {i \in DOMAIN im : im[i].session # sessionId})

\* a DELETE on messages without its WHERE clause
DeleteMessagesOf_All(d, sessionId) == <<>>

DeleteMessagesOf(d, sessionId) == Restrict(d, {i \in DOMAIN d : d[i].session # sessionId})

DeleteSessionRow(ss, sessionId) == Restrict(ss, DOMAIN ss \ {sessionId})

\* what the store holds
Store == [db |-> db, sessions |-> sessions, images |-> images]

\* no handler is running (the last one may have left its result behind)
CallFree == call.pc \in {"idle", "done"}

\* bound: the user may start one more operation
MayStart == CallFree /\ seq.calls < MaxCalls

\* the variables no handler of this part touches
elsewhere == <<retryingQueuedRef, passes, tasks, dbQueue, rawMessages, turns,
               turnVersionIndices, restarts>>

\* the application has started on the welcome screen: no session, no message, no image
InitStore ==
  /\ TurnsIdle
  /\ StoreIdle
  /\ db = <<>>
  /\ nextId = 1
  /\ currentSessionId = 0
  /\ view = <<>>
  /\ loading = FALSE
  /\ retryingQueuedRef = FALSE
  /\ passes = [p \in PassSlots |-> NoPass]
  /\ tasks = [t \in Slots |-> NoTask]
  /\ dbQueue = <<>>

\* turn rendering: aiMsg = assistantVersions[currentIndex] || assistantVersions[0], at any
\* index the arrows can reach
DisplayedAssistants(v) ==
  UNION {{SafeAssistantVersions(v, a)[k] : k \in 1..Len(SafeAssistantVersions(v, a))} :
           a \in {b \in TurnAnchors(v) : Len(SafeUserVersions(v, b)) > 0}}

\* the session list or the new-chat button: the screen shows session s (0: the welcome
\* screen) and loads its messages
SelectSession(s) ==
  /\ MayStart
  /\ s \in DOMAIN sessions \cup {0}
  /\ s # currentSessionId
  /\ currentSessionId' = s
  /\ view' = listMessages(db, s)
  /\ call' = NoCall
  /\ seq' = [seq EXCEPT !.calls = @ + 1]
  /\ UNCHANGED <<db, nextId, loading, sessions, images, remote, elsewhere>>

\* handleSend, text-only branch, up to the call of resendUserMessage: a session is created
\* when none is open, the user row is inserted and appended to the list
SendText ==
  /\ MayStart
  /\ nextId + 1 <= MaxMsgs
  /\ currentSessionId # 0 \/ seq.sessions < MaxSessions
  /\ LET fresh == currentSessionId = 0
         sessionId == IF fresh THEN seq.sessions + 1 ELSE currentSessionId
         d2 == addMessage(db, nextId, sessionId, "user", 0, 0)
     IN /\ sessions' = IF fresh THEN createSession(sessions, sessionId) ELSE sessions
        /\ seq' = [seq EXCEPT !.sessions = IF fresh THEN sessionId ELSE @, !.calls = @ + 1]
        /\ currentSessionId' = sessionId
        /\ db' = d2
        /\ view' = view @@ (nextId :> ViewRecord(d2, nextId))
        /\ call' = [NoCall EXCEPT !.op = "send", !.pc = "mark", !.id = nextId,
                                  !.session = sessionId]
  /\ nextId' = nextId + 1
  /\ loading' = TRUE
  /\ UNCHANGED <<images, remote, elsewhere>>

\* handleSendEdit up to the call of resendUserMessage: a new user version under the anchor
\* of the edited message
SendEdited(u) ==
  /\ MayStart
  /\ nextId + 1 <= MaxMsgs
  /\ u \in DisplayedUser(view)
  /\ LET anchorUserId == EditAnchorOf(view[u].parent, u)
         d2 == addMessage(db, nextId, currentSessionId, "user", anchorUserId, 0)
     IN /\ db' = d2
        /\ view' = view @@ (nextId :> ViewRecord(d2, nextId))
        /\ call' = [NoCall EXCEPT !.op = "edit", !.pc = "mark", !.id = nextId,
                                  !.parent = anchorUserId, !.session = currentSessionId,
                                  !.force = TRUE]
  /\ nextId' = nextId + 1
  /\ loading' = TRUE
  /\ seq' = [seq EXCEPT !.calls = @ + 1]
  /\ UNCHANGED <<currentSessionId, sessions, images, remote, elsewhere>>

\* onUserRetry -> handleManualRetryUserMessage(userMsg) on a queued or failed message
RetryUserMessage(u) ==
  /\ MayStart
  /\ nextId <= MaxMsgs
  /\ u \in DisplayedUser(view)
  /\ view[u].status \in {"queued", "failed"}
  /\ call' = [NoCall EXCEPT !.op = "retry", !.pc = "mark", !.id = u, !.rc = view[u].rc,
                            !.parent = view[u].parent, !.session = view[u].session,
                            !.force = TRUE]
  /\ seq' = [seq EXCEPT !.calls = @ + 1]
  /\ UNCHANGED <<db, nextId, currentSessionId, view, loading, sessions, images, remote,
                 elsewhere>>

\* where a handler goes when resendUserMessage has returned: handleSend and handleSendEdit
\* go on to ensureSessionHasTitle, the manual retry is over
AfterResend(c) ==
  IF c.op \in {"send", "edit"}
  THEN [c EXCEPT !.pc = "title"]
  ELSE [c EXCEPT !.pc = "done", !.result = "ok"]

\* resendUserMessage lines 181-185: 'sending' is written and mirrored, the call is issued
ResendMark ==
  /\ call.pc = "mark"
  /\ db' = updateMessageStatus(db, call.id, "sending", call.rc)
  /\ view' = updateMessageStatusInState(view, call.id, "sending", call.rc)
  /\ call' = [call EXCEPT !.pc = "flight"]
  /\ UNCHANGED <<nextId, currentSessionId, loading, sessions, images, seq, remote, elsewhere>>

\* lines 187-195: the call returns a reply (the backend now holds a context for the
\* session); 'sent' with retry_count 0 is written and mirrored
ResendOk ==
  /\ call.pc = "flight"
  /\ call.op \in {"send", "edit", "retry"}
  /\ db' = updateMessageStatus(db, call.id, "sent", 0)
  /\ view' = updateMessageStatusInState(view, call.id, "sent", 0)
  /\ remote' = remote \cup {call.session}
  /\ call' = [call EXCEPT !.pc = "store"]
  /\ UNCHANGED <<nextId, currentSessionId, loading, sessions, images, seq, elsewhere>>

\* lines 197-205: the assistant row is inserted under the anchor and appended to the list
ResendStoreReply ==
  /\ call.pc = "store"
  /\ LET d2 == addMessage(db, nextId, call.session, "assistant",
                          AnchorOf(call.parent, call.id), call.id)
     IN /\ db' = d2
        /\ view' = view @@ (nextId :> ViewRecord(d2, nextId))
  /\ nextId' = nextId + 1
  /\ call' = AfterResend(call)
  /\ UNCHANGED <<currentSessionId, loading, sessions, images, seq, remote, elsewhere>>

\* lines 206-223: the call throws; the catch block writes the status of the failure
ResendFail(outcome) ==
  /\ call.pc = "flight"
  /\ call.op \in {"send", "edit", "retry"}
  /\ outcome \in {"net", "biz"}
  /\ db' = updateMessageStatus(db, call.id, FailureStatus(call, outcome),
                               FailureRetry(call, outcome))
  /\ view' = updateMessageStatusInState(view, call.id, FailureStatus(call, outcome),
                                        FailureRetry(call, outcome))
  /\ call' = AfterResend(call)
  /\ UNCHANGED <<nextId, currentSessionId, loading, sessions, images, seq, remote, elsewhere>>

\* what the title request can come to: a title, a blank title, an error of the request,
\* or a title whose write to the store fails
TitleOutcomes == {"title", "blank", "requestFails", "writeFails"}

\* a title step that lets its failures out
ensureSessionHasTitle_Rethrows(ss, sessionId, outcome) ==
  IF ~(sessionId \notin DOMAIN ss \/ ss[sessionId].title = DEFAULT_TITLE)
  THEN [sessions |-> ss, threw |-> FALSE]
  ELSE IF outcome = "title"
       THEN [sessions |-> updateSessionTitle(ss, sessionId, GENERATED_TITLE), threw |-> FALSE]
       ELSE [sessions |-> ss, threw |-> outcome \in {"requestFails", "writeFails"}]

\* ensureSessionHasTitle: only a session that still has the default title is given one;
\* the whole body sits in a try block whose catch swallows every error
ensureSessionHasTitle(ss, sessionId, outcome) ==
  IF ~(sessionId \notin DOMAIN ss \/ ss[sessionId].title = DEFAULT_TITLE)
  THEN [sessions |-> ss, threw |-> FALSE]
  ELSE IF outcome = "title"
       THEN [sessions |-> updateSessionTitle(ss, sessionId, GENERATED_TITLE), threw |-> FALSE]
       ELSE [sessions |-> ss, threw |-> FALSE]

\* handleSend / handleSendEdit after resendUserMessage: `await ensureSessionHasTitle`, the
\* session list is refreshed, and the finally block clears `loading`
EnsureSessionHasTitle(outcome) ==
  /\ call.pc = "title"
  /\ outcome \in TitleOutcomes
  /\ LET r == ensureSessionHasTitle(sessions, call.session, outcome)
     IN /\ sessions' = r.sessions
        /\ call' = [call EXCEPT !.pc = "done",
                                !.result = IF r.threw THEN "error" ELSE "ok"]
  /\ loading' = FALSE
  /\ UNCHANGED <<db, nextId, currentSessionId, view, images, seq, remote, elsewhere>>

\* handleRegenerate: messages.findIndex(m => m.role === 'assistant' && (m.id ===
\* aiMessage.id || m.parentMessageId === aiMessage.parentMessageId)), the first match in
\* list order
RegenerateIndex(v, ai) ==
  CHOOSE i \in DOMAIN v :
    /\ v[i].role = "assistant" /\ (i = ai \/ v[i].pmi = v[ai].pmi)
    /\ \A j \in DOMAIN v :
         (v[j].role = "assistant" /\ (j = ai \/ v[j].pmi = v[ai].pmi)) => i <= j

\* handleRegenerate: the nearest user message above that index (0: none)
RegenerateUser(v, ai) ==
  LET above == {i \in DOMAIN v : v[i].role = "user" /\ i < RegenerateIndex(v, ai)}
  IN IF above = {} THEN 0 ELSE CHOOSE i \in above : \A j \in above : j <= i

\* handleRegenerate up to the completion call: parentMessageId = userMessage.id
HandleRegenerate(ai) ==
  /\ MayStart
  /\ nextId <= MaxMsgs
  /\ ai \in DisplayedAssistants(view)
  /\ RegenerateUser(view, ai) # 0
  /\ call' = [NoCall EXCEPT !.op = "regenerate", !.pc = "flight",
                            !.id = RegenerateUser(view, ai), !.ai = ai,
                            !.session = currentSessionId]
  /\ loading' = TRUE
  /\ seq' = [seq EXCEPT !.calls = @ + 1]
  /\ UNCHANGED <<db, nextId, currentSessionId, view, sessions, images, remote, elsewhere>>

\* handleRegenerate, the call returned: the new assistant row is stored under
\* parentMessageId; in the list the first assistant entry that is aiMessage or carries
\* that parentMessageId gets the field parentMessageId (no entry is appended)
RegenerateOk ==
  /\ call.pc = "flight"
  /\ call.op = "regenerate"
  /\ db' = addMessage(db, nextId, call.session, "assistant", call.id, call.id)
  /\ nextId' = nextId + 1
  /\ LET hits == {i \in DOMAIN view :
                    view[i].role = "assistant" /\ (i = call.ai \/ view[i].pmi = call.id)}
     IN view' = IF hits = {} THEN view
                ELSE [view EXCEPT ![CHOOSE i \in hits : \A j \in hits : i <= j].pmi = call.id]
  /\ remote' = remote \cup {call.session}
  /\ loading' = FALSE
  /\ call' = [call EXCEPT !.pc = "done", !.result = "ok"]
  /\ UNCHANGED <<currentSessionId, sessions, images, seq, elsewhere>>

\* handleRegenerate, the call threw: the catch block alerts, nothing is stored
RegenerateFail ==
  /\ call.pc = "flight"
  /\ call.op = "regenerate"
  /\ loading' = FALSE
  /\ call' = [call EXCEPT !.pc = "done", !.result = "ok"]
  /\ UNCHANGED <<db, nextId, currentSessionId, view, sessions, images, seq, remote, elsewhere>>

\* handleDeleteMessage: anchorId = msg.parentMessageId || msg.parent_message_id || msg.id
DeleteAnchorOf(v, msg) ==
  IF v[msg].pmi # 0 THEN v[msg].pmi
  ELSE IF v[msg].parent # 0 THEN v[msg].parent
  ELSE msg

\* handleDeleteMessage(aiMsg), confirmed: chatDb.deleteMessage(anchorId) is called
HandleDeleteMessage(msg) ==
  /\ MayStart
  /\ msg \in DisplayedAssistants(view)
  /\ call' = [NoCall EXCEPT !.op = "deleteTurn", !.pc = "versions",
                            !.id = DeleteAnchorOf(view, msg), !.ai = msg,
                            !.session = currentSessionId, !.before = Store]
  /\ seq' = [seq EXCEPT !.calls = @ + 1]
  /\ UNCHANGED <<db, nextId, currentSessionId, view, loading, sessions, images, remote,
                 elsewhere>>

\* chatDb.deleteMessage, first statement
DeleteMessageVersions ==
  /\ call.op = "deleteTurn"
  /\ call.pc = "versions"
  /\ db' = DeleteVersions(db, call.id)
  /\ call' = [call EXCEPT !.pc = "row"]
  /\ UNCHANGED <<nextId, currentSessionId, view, loading, sessions, images, seq, remote,
                 elsewhere>>

\* chatDb.deleteMessage, second statement; it returns and handleDeleteMessage loads the
\* list of the session again
DeleteMessageRow ==
  /\ call.op = "deleteTurn"
  /\ call.pc = "row"
  /\ db' = DeleteRow(db, call.id)
  /\ view' = listMessages(db', currentSessionId)
  /\ call' = [call EXCEPT !.pc = "done", !.result = "ok"]
  /\ UNCHANGED <<nextId, currentSessionId, loading, sessions, images, seq, remote, elsewhere>>

\* chatDb.deleteMessage, the statement at hand throws: the store rethrows, the handler
\* alerts and leaves the list as it is
DeleteMessageFails ==
  /\ call.op = "deleteTurn"
  /\ call.pc \in {"versions", "row"}
  /\ call' = [call EXCEPT !.pc = "done", !.result = "error"]
  /\ UNCHANGED <<db, nextId, currentSessionId, view, loading, sessions, images, seq, remote,
                 elsewhere>>

\* handleSend, image branch, up to the call: an image row per picture, then the user row
SendImages(n) ==
  /\ MayStart
  /\ nextId + 1 <= MaxMsgs
  /\ n \in 1..(MaxImages - seq.images)
  /\ currentSessionId # 0 \/ seq.sessions < MaxSessions
  /\ LET fresh == currentSessionId = 0
         sessionId == IF fresh THEN seq.sessions + 1 ELSE currentSessionId
         d2 == addMessage(db, nextId, sessionId, "user", 0, 0)
         ids == (seq.images + 1)..(seq.images + n)
     IN /\ sessions' = IF fresh THEN createSession(sessions, sessionId) ELSE sessions
        /\ seq' = [sessions |-> IF fresh THEN sessionId ELSE seq.sessions,
                   images |-> seq.images + n, calls |-> seq.calls + 1]
        /\ currentSessionId' = sessionId
        /\ images' = images @@ [i \in ids |-> addImage(<<>>, i, sessionId)[i]]
        /\ db' = d2
        /\ view' = view @@ (nextId :> ViewRecord(d2, nextId))
        /\ call' = [NoCall EXCEPT !.op = "image", !.pc = "flight", !.id = nextId,
                                  !.session = sessionId, !.imgs = ids, !.before = Store]
  /\ nextId' = nextId + 1
  /\ loading' = TRUE
  /\ UNCHANGED <<remote, elsewhere>>

\* image branch, an addImage of the loop throws after `saved` image rows were inserted:
\* the catch block runs with imageUserMessage still null and savedImageIds still empty
\* (it is assigned after the loop), so it deletes nothing; it alerts and clears `loading`
SendImagesSaveFails(n, saved) ==
  /\ MayStart
  /\ n \in 1..(MaxImages - seq.images)
  /\ saved \in 0..(n - 1)
  /\ currentSessionId # 0 \/ seq.sessions < MaxSessions
  /\ LET fresh == currentSessionId = 0
         sessionId == IF fresh THEN seq.sessions + 1 ELSE currentSessionId
         ids == (seq.images + 1)..(seq.images + saved)
     IN /\ sessions' = IF fresh THEN createSession(sessions, sessionId) ELSE sessions
        /\ seq' = [sessions |-> IF fresh THEN sessionId ELSE seq.sessions,
                   images |-> seq.images + saved, calls |-> seq.calls + 1]
        /\ currentSessionId' = sessionId
        /\ images' = images @@ [i \in ids |-> addImage(<<>>, i, sessionId)[i]]
        /\ call' = [NoCall EXCEPT !.op = "image", !.pc = "done", !.session = sessionId,
                                  !.imgs = ids, !.before = Store, !.result = "alerted"]
  /\ UNCHANGED <<db, nextId, view, loading, remote, elsewhere>>

\* image branch, the call returned: 'sent' is written, the assistant row is stored under
\* the user row and appended with parentMessageId set
SendImagesOk ==
  /\ call.pc = "flight"
  /\ call.op = "image"
  /\ LET d2 == updateMessageStatus(db, call.id, "sent", 0)
         d3 == addMessage(d2, nextId, call.session, "assistant", call.id, call.id)
     IN /\ db' = d3
        /\ view' = updateMessageStatusInState(view, call.id, "sent", 0)
                     @@ (nextId :> [ViewRecord(d3, nextId) EXCEPT !.pmi = call.id])
  /\ nextId' = nextId + 1
  /\ remote' = remote \cup {call.session}
  /\ call' = [call EXCEPT !.pc = "title"]
  /\ UNCHANGED <<currentSessionId, loading, sessions, images, seq, elsewhere>>

\* image branch, the call threw: the user row is deleted and taken off the list, the
\* image rows that were saved are deleted
SendImagesFail ==
  /\ call.pc = "flight"
  /\ call.op = "image"
  /\ db' = deleteMessage(db, call.id)
  /\ view' = Restrict(view, DOMAIN view \ {call.id})
  /\ images' = Restrict(images, DOMAIN images \ call.imgs)
  /\ loading' = FALSE
  /\ call' = [call EXCEPT !.pc = "done", !.result = "alerted"]
  /\ UNCHANGED <<nextId, currentSessionId, sessions, seq, remote, elsewhere>>

\* SessionListScreen.handleDelete -> deleteSessionWithImages(sessionId) ->
\* chatDb.deleteSession: the image rows of the session are read
DeleteSessionWithImages(s) ==
  /\ MayStart
  /\ s \in DOMAIN sessions
  /\ call' = [NoCall EXCEPT !.op = "deleteSession", !.pc = "images", !.session = s,
                            !.imgs = listImages(images, s), !.before = Store]
  /\ seq' = [seq EXCEPT !.calls = @ + 1]
  /\ UNCHANGED <<db, nextId, currentSessionId, view, loading, sessions, images, remote,
                 elsewhere>>

\* chatDb.deleteSession: DELETE FROM images WHERE session_id = ?
DeleteSessionImages ==
  /\ call.op = "deleteSession"
  /\ call.pc = "images"
  /\ images' = DeleteImagesOf(images, call.session)
  /\ call' = [call EXCEPT !.pc = "messages"]
  /\ UNCHANGED <<db, nextId, currentSessionId, view, loading, sessions, seq, remote, elsewhere>>

\* chatDb.deleteSession: DELETE FROM messages WHERE session_id = ?
DeleteSessionMessages ==
  /\ call.op = "deleteSession"
  /\ call.pc = "messages"
  /\ db' = DeleteMessagesOf(db, call.session)
  /\ call' = [call EXCEPT !.pc = "session"]
  /\ UNCHANGED <<nextId, currentSessionId, view, loading, sessions, images, seq, remote,
                 elsewhere>>

\* chatDb.deleteSession: DELETE FROM sessions WHERE id = ?; {success: true, images} is
\* returned and the service deletes the files of the images (each in its own try block)
DeleteSessionRecord ==
  /\ call.op = "deleteSession"
  /\ call.pc = "session"
  /\ sessions' = DeleteSessionRow(sessions, call.session)
  /\ call' = [call EXCEPT !.pc = "remote"]
  /\ UNCHANGED <<db, nextId, currentSessionId, view, loading, images, seq, remote, elsewhere>>

\* chatDb.deleteSession, the statement at hand throws: the store rethrows and
\* deleteSessionWithImages rejects (the call of the store is outside every try block)
DeleteSessionFails ==
  /\ call.op = "deleteSession"
  /\ call.pc \in {"images", "messages", "session"}
  /\ call' = [call EXCEPT !.pc = "done", !.result = "error"]
  /\ UNCHANGED <<db, nextId, currentSessionId, view, loading, sessions, images, seq, remote,
                 elsewhere>>

\* a service whose result is the result of the remote cleanup
ServiceResult_RemoteDecides(remoteOk) ==
  [result |-> IF remoteOk THEN "ok" ELSE "error", backendCleared |-> remoteOk]

\* deleteSessionWithImages: `return { success: true, backendCleared }`, where
\* backendCleared is false when deleteBackendSession threw
ServiceResult(remoteOk) == [result |-> "ok", backendCleared |-> remoteOk]

\* deleteSessionWithImages, the remote cleanup: deleteBackendSession returns (the backend
\* drops its context) or throws (caught); the context refreshes the session list and the
\* screen goes back to the welcome screen when its session is no longer in a non-empty list
DeleteBackendSession(remoteOk) ==
  /\ call.op = "deleteSession"
  /\ call.pc = "remote"
  /\ remoteOk \in BOOLEAN
  /\ remote' = IF remoteOk THEN remote \ {call.session} ELSE remote
  /\ call' = [call EXCEPT !.pc = "done", !.result = ServiceResult(remoteOk).result,
                          !.backendCleared = ServiceResult(remoteOk).backendCleared]
  /\ LET gone == /\ currentSessionId # 0
                 /\ DOMAIN sessions # {}
                 /\ currentSessionId \notin DOMAIN sessions
     IN /\ currentSessionId' = IF gone THEN 0 ELSE currentSessionId
        /\ view' = IF gone THEN <<>> ELSE view
  /\ UNCHANGED <<db, nextId, loading, sessions, images, seq, elsewhere>>

NextStore ==
  \/ \E s \in 0..MaxSessions : SelectSession(s)
  \/ SendText
  \/ \E u \in 1..MaxMsgs : SendEdited(u)
  \/ \E u \in 1..MaxMsgs : RetryUserMessage(u)
  \/ ResendMark
  \/ ResendOk
  \/ ResendStoreReply
  \/ \E outcome \in {"net", "biz"} : ResendFail(outcome)
  \/ \E outcome \in TitleOutcomes : EnsureSessionHasTitle(outcome)
  \/ \E ai \in 1..MaxMsgs : HandleRegenerate(ai)
  \/ RegenerateOk
  \/ RegenerateFail
  \/ \E msg \in 1..MaxMsgs : HandleDeleteMessage(msg)
  \/ DeleteMessageVersions
  \/ DeleteMessageRow
  \/ DeleteMessageFails
  \/ \E n \in 1..MaxImages : SendImages(n)
  \/ \E n \in 1..MaxImages, saved \in 0..MaxImages : SendImagesSaveFails(n, saved)
  \/ SendImagesOk
  \/ SendImagesFail
  \/ \E s \in 1..MaxSessions : DeleteSessionWithImages(s)
  \/ DeleteSessionImages
  \/ DeleteSessionMessages
  \/ DeleteSessionRecord
  \/ DeleteSessionFails
  \/ \E remoteOk \in BOOLEAN : DeleteBackendSession(remoteOk)

SpecStore == InitStore /\ [][NextStore]_vars

\* one conversation: the operations of the chat screen on its session, without the session
\* list
NextConversation ==
  \/ SendText
  \/ \E u \in 1..MaxMsgs : SendEdited(u)
  \/ \E u \in 1..MaxMsgs : RetryUserMessage(u)
  \/ ResendMark
  \/ ResendOk
  \/ ResendStoreReply
  \/ \E outcome \in {"net", "biz"} : ResendFail(outcome)
  \/ \E outcome \in TitleOutcomes : EnsureSessionHasTitle(outcome)
  \/ \E ai \in 1..MaxMsgs : HandleRegenerate(ai)
  \/ RegenerateOk
  \/ RegenerateFail
  \/ \E msg \in 1..MaxMsgs : HandleDeleteMessage(msg)
  \/ DeleteMessageVersions
  \/ DeleteMessageRow
  \/ DeleteMessageFails
  \/ \E n \in 1..MaxImages : SendImages(n)
  \/ \E n \in 1..MaxImages, saved \in 0..MaxImages : SendImagesSaveFails(n, saved)
  \/ SendImagesOk
  \/ SendImagesFail

SpecConversation == InitStore /\ [][NextConversation]_vars

\* the version arrows of a turn the screen renders: handleTurnVersionChange(anchorUserId,
\* direction, totalVersions) with the totalVersions of the list on the screen
StepTurnVersion(a, direction) ==
  /\ a \in TurnAnchors(view)
  /\ Len(SafeUserVersions(view, a)) > 0
  /\ turnVersionIndices' =
       handleTurnVersionChange(turnVersionIndices, a, direction, TotalVersions(view, a))
  /\ UNCHANGED <<db, nextId, currentSessionId, view, loading, retryingQueuedRef, passes,
                 tasks, dbQueue, rawMessages, turns, storeVars, restarts>>

\* handleRefresh (pull to refresh): the list of the open session is loaded again
HandleRefresh ==
  /\ MayStart
  /\ currentSessionId # 0
  /\ view' = listMessages(db, currentSessionId)
  /\ seq' = [seq EXCEPT !.calls = @ + 1]
  /\ call' = NoCall
  /\ UNCHANGED <<db, nextId, currentSessionId, loading, sessions, images, remote, elsewhere>>

\* one conversation with the version arrows and pull to refresh
NextVersions ==
  \/ NextConversation
  \/ \E a \in 1..MaxMsgs, direction \in {"prev", "next"} : StepTurnVersion(a, direction)
  \/ HandleRefresh

SpecVersions == InitStore /\ [][NextVersions]_vars

\* ---------------------------------------------------------------- vocabulary of the properties
MsgIds == 1..MaxMsgs
UserIds == {i \in DOMAIN db : db[i].role = "user"}

\* the attempt of task t writes its result in this step
AttemptFails(t) == RespondFail(t, "net") \/ RespondFail(t, "biz") \/ StoreReplyFails(t)
AttemptResult(t) == RespondOk(t) \/ AttemptFails(t)

\* a forced attempt (manual retry or edit-resend) on message m has been requested and not ended
ForcedPending(m) == \E t \in Slots : tasks[t].pc # "idle" /\ tasks[t].force /\ tasks[t].id = m

InFlight(m) == {t \in Slots : tasks[t].pc = "flight" /\ tasks[t].id = m}

ActivePasses == {p \in PassSlots : passes[p].pc # "idle"}

\* ---------------------------------------------------------------- C1
\* C1: a non-forced attempt that fails with a network-classified error leaves the message
\* queued with retryCount + 1 whenever its retryCount before the attempt was below
\* MAX_AUTO_RETRY, and failed only when that retryCount was already >= MAX_AUTO_RETRY.
C1_RequeuedBelowCeiling ==
  [][\A t \in Slots :
       (RespondFail(t, "net") /\ ~tasks[t].force) =>
          /\ tasks[t].rc < MAX_AUTO_RETRY =>
               /\ db'[tasks[t].id].status = "queued"
               /\ db'[tasks[t].id].rc = tasks[t].rc + 1
          /\ db'[tasks[t].id].status = "failed" => tasks[t].rc >= MAX_AUTO_RETRY]_vars

\* ---------------------------------------------------------------- C2
\* C2: under persistent network failure with recurring connectivity events every user
\* message ends failed unless a forced retry of it is pending; the persisted retryCount
\* never exceeds MAX_AUTO_RETRY and a queued message has budget left, so the automatic
\* attempts are bounded; and a step that takes a message out of failed is a step of a
\* forced attempt on that message, never one of a replay pass.
C2_Bounded ==
  \A m \in UserIds :
     /\ db[m].rc <= MAX_AUTO_RETRY
     /\ db[m].status = "queued" => db[m].rc < MAX_AUTO_RETRY

C2_OnlyManualLeavesFailed ==
  \A m \in MsgIds :
     (m \in DOMAIN db /\ db[m].status = "failed" /\ db'[m].status # "failed") =>
        \E t \in Slots : tasks[t].force /\ tasks[t].id = m /\ (Mark(t) \/ AttemptResult(t))

C2_ReachesFailed ==
  \A m \in MsgIds :
     (m \in DOMAIN db /\ ~ForcedPending(m)) ~>
        (m \in DOMAIN db /\ (db[m].status = "failed" \/ ForcedPending(m)))

C2_RetryCeiling ==
  /\ []C2_Bounded
  /\ [][C2_OnlyManualLeavesFailed]_vars
  /\ C2_ReachesFailed

\* a message that the automatic attempts alone have driven to failed
C2_Witness ==
  \E m \in UserIds :
     db[m].status = "failed" /\ db[m].rc = MAX_AUTO_RETRY /\ db[m].session = OpenSession

\* ---------------------------------------------------------------- C3
\* C3 as stated: the result a forced attempt writes is sent or failed, never queued.
C3_ForceNeverQueues ==
  [][\A t \in Slots :
       (tasks[t].force /\ AttemptResult(t)) =>
          db'[tasks[t].id].status \in {"sent", "failed"}]_vars

\* C3 amended: a forced attempt writes sent when the call succeeds, queued with
\* retryCount 0 when it fails with a network-classified error (never failed for that
\* reason), and failed when it fails with any other error; when a status write itself
\* throws, the attempt is abandoned and the persisted status stays as last written.
C3_ForceOutcome ==
  [][\A t \in Slots :
       tasks[t].force =>
          /\ StatusWriteFails(t) => db' = db
          /\ RespondOk(t) => db'[tasks[t].id].status = "sent"
          /\ RespondFail(t, "net") =>
               db'[tasks[t].id].status = "queued" /\ db'[tasks[t].id].rc = 0
          /\ (RespondFail(t, "biz") \/ StoreReplyFails(t)) =>
               db'[tasks[t].id].status = "failed"]_vars

\* a message of the open session queued with retryCount 0: only a forced attempt that
\* failed on the network writes that
C3_Witness ==
  \E m \in UserIds :
     db[m].session = OpenSession /\ db[m].status = "queued" /\ db[m].rc = 0

\* ---------------------------------------------------------------- C4
\* C4: when a forced attempt has written its result, the persisted retryCount is 0,
\* whatever the outcome and whatever the retryCount before.
C4_ForceResetsRetryCount ==
  [][\A t \in Slots :
       (tasks[t].force /\ AttemptResult(t)) => db'[tasks[t].id].rc = 0]_vars

\* ---------------------------------------------------------------- C5
\* C5: no message has two completion calls outstanding at once.
C5_OneInFlight == \A m \in MsgIds : Cardinality(InFlight(m)) <= 1

\* ---------------------------------------------------------------- C6
\* C6: every row ever inserted is still in the store, and no user message has more than
\* one assistant reply persisted by its deliveries.
C6_NoLossNoDuplicate ==
  /\ \A i \in 1..(nextId - 1) : i \in DOMAIN db
  /\ \A m \in UserIds :
       Cardinality({a \in DOMAIN db : db[a].role = "assistant" /\ db[a].replyTo = m}) <= 1

\* ---------------------------------------------------------------- C7
\* C7: a replay pass issues a completion call only for a message whose persisted status
\* is queued at that moment.
C7_ReplayOnlyQueued ==
  [][\A p \in PassSlots : Mark(p) => db[tasks[p].id].status = "queued"]_vars

\* ---------------------------------------------------------------- C8
\* C8: an attempt that succeeds persists exactly one new row: an assistant message in the
\* session of the user message M, parented to M.parentId when M has one and to M.id
\* otherwise, all other rows unchanged; an attempt that fails persists no row; and no
\* other step of the delivery path persists an assistant row.
C8_OneReplyUnderAnchor ==
  [][/\ \A t \in Slots :
          StoreReply(t) =>
             LET m == tasks[t].id
             IN /\ DOMAIN db' = DOMAIN db \cup {nextId}
                /\ nextId \notin DOMAIN db
                /\ \A i \in DOMAIN db : db'[i] = db[i]
                /\ db'[nextId].role = "assistant"
                /\ db'[nextId].session = db[m].session
                /\ db'[nextId].parent = IF db[m].parent # 0 THEN db[m].parent ELSE m
     /\ \A t \in Slots : AttemptFails(t) => DOMAIN db' = DOMAIN db
     /\ (\E i \in DOMAIN db' \ DOMAIN db : db'[i].role = "assistant") =>
           \E t \in Slots : StoreReply(t)]_vars

\* the reply to an edited version is stored under the anchor of that version
C8_Witness ==
  \E a \in DOMAIN db :
     /\ db[a].role = "assistant"
     /\ db[db[a].replyTo].parent # 0
     /\ db[a].parent = db[db[a].replyTo].parent

\* ---------------------------------------------------------------- C9
\* C9: at most one replay pass is active, and the guard is set exactly while a pass is
\* active (so it is free again, for the next connectivity event, once the pass has ended).
C9_SinglePass ==
  /\ Cardinality(ActivePasses) <= 1
  /\ retryingQueuedRef <=> ActivePasses # {}

\* a pass is in the middle of a delivery
C9_Witness ==
  \E p \in PassSlots : passes[p].pc = "running" /\ tasks[p].pc = "flight" /\ retryingQueuedRef

\* ---------------------------------------------------------------- C10
\* C10: a replay whose queue query finds no queued message ends at once and leaves the
\* store, the in-memory list and the running deliveries as they were; taking the guard
\* changes none of them either.
C10_EmptyReplayIsNoOp ==
  [][/\ \A p \in PassSlots :
          (ReplayList(p) /\ \A i \in DOMAIN db : db[i].status # "queued") =>
             /\ passes'[p] = NoPass
             /\ ~retryingQueuedRef'
             /\ UNCHANGED <<db, nextId, view, tasks>>
     /\ NetInfoConnected => UNCHANGED <<db, nextId, view, tasks>>]_vars

\* the queue query is outstanding while the store holds messages and none is queued
C10_Witness ==
  /\ \E p \in PassSlots : passes[p].pc = "listing"
  /\ \E i \in DOMAIN db : db[i].status = "failed"
  /\ \A i \in DOMAIN db : db[i].status # "queued"

\* ---------------------------------------------------------------- C11
\* the replies persisted by deliveries of the user message m
RepliesTo(m) == {a \in DOMAIN db : db[a].role = "assistant" /\ db[a].replyTo = m}

\* Scenario A, step by step, with retryCount k after the failed send: the send that fails
\* on the network leaves the message queued with retryCount k; a message becomes queued
\* only through that failure and a replay pass issues a call only for a queued, unanswered
\* message with no call outstanding, so a single call follows the restored connectivity;
\* a sent message stays sent.
C11_Step(k) ==
  /\ RespondFail(FG, "net") =>
        /\ db'[tasks[FG].id].status = "queued"
        /\ db'[tasks[FG].id].rc = k
  /\ \A m \in UserIds :
        (db[m].status # "queued" /\ db'[m].status = "queued") =>
           (RespondFail(FG, "net") /\ tasks[FG].id = m)
  /\ \A p \in PassSlots :
        Mark(p) =>
           /\ db[tasks[p].id].status = "queued"
           /\ RepliesTo(tasks[p].id) = {}
           /\ InFlight(tasks[p].id) = {}
  /\ \A m \in UserIds : db[m].status = "sent" => db'[m].status = "sent"

\* every message ends sent with exactly one reply, parented to its anchor
C11_Delivered ==
  \A m \in MsgIds :
     (m \in UserIds) ~>
        /\ m \in UserIds
        /\ db[m].status = "sent"
        /\ Cardinality(RepliesTo(m)) = 1
        /\ \A a \in RepliesTo(m) :
              /\ db[a].parent = (IF db[m].parent # 0 THEN db[m].parent ELSE m)
              /\ db[a].session = db[m].session

\* C11 as stated: in scenario A the failed send leaves the message queued with
\* retryCount 0, one call follows the restored connectivity, and its success leaves the
\* message sent with exactly one new reply parented to the anchor.
C11_ScenarioA_AsStated == [][C11_Step(0)]_vars /\ C11_Delivered

\* C11 amended: the same, with retryCount 1 after the failed send (the failure of the
\* first attempt is counted).
C11_ScenarioA == [][C11_Step(1)]_vars /\ C11_Delivered

\* a message of the open session, queued by its failed send, has been delivered by a pass
C11_Witness ==
  \E m \in UserIds :
     /\ db[m].session = OpenSession
     /\ db[m].status = "sent"
     /\ Cardinality(RepliesTo(m)) = 1
     /\ \E p \in PassSlots : passes[p].pc = "idle" /\ tasks[p].pc = "idle"

\* ---------------------------------------------------------------- C12
\* C12: an attempt that fails with a business-classified error leaves the message failed
\* with the retryCount it had, and no replay pass issues a call for a message that such a
\* failure has left failed (failed below the ceiling: the network branch writes failed
\* only with a retryCount of MAX_AUTO_RETRY or more).
C12_BusinessFailureIsFinal ==
  [][/\ \A t \in Slots :
          RespondFail(t, "biz") =>
             /\ db'[tasks[t].id].status = "failed"
             /\ db'[tasks[t].id].rc = db[tasks[t].id].rc
     /\ \A p \in PassSlots :
          Mark(p) =>
             ~(db[tasks[p].id].status = "failed" /\ db[tasks[p].id].rc < MAX_AUTO_RETRY)]_vars

\* ---------------------------------------------------------------- C13
\* the transport itself reports that the service is unreachable or that the request timed out
C13_TransportDown(res) ==
  res.kind = "throw" /\ res.mentions \in {"Network request failed", "timeout"}

\* a response with a reply in a well-formed body
C13_WellFormed(res) == res.kind = "http" /\ res.status = 200 /\ res.body = "reply"

\* C13: the failure of a call is network-classified exactly when the transport reports an
\* unreachable or timeout condition; every other response that is not a well-formed reply
\* (an HTTP 4xx/5xx response, a body that is not JSON or has no reply) ends the attempt
\* failed, and is never taken for a successful delivery.
C13_Classification ==
  [][\A t \in Slots, res \in Responses :
       (tasks[t].pc = "flight" /\ Completion(t, res)) =>
          /\ (sendMessageToBackend(res) = "net") <=> C13_TransportDown(res)
          /\ (~C13_TransportDown(res) /\ ~C13_WellFormed(res)) =>
                db'[tasks[t].id].status = "failed"]_vars

\* ---------------------------------------------------------------- C14
\* C14: every user message of the open session whose persisted status is failed or queued
\* is still in the store, is in the in-memory list, belongs to the exposed user versions
\* of a turn at an index that prev/next navigation can reach, and is shown there with the
\* status that offers the retry action.
C14_UndeliveredStaysVisible ==
  \A m \in UserIds :
     (db[m].session = OpenSession /\ db[m].status \in {"failed", "queued"}) =>
        /\ m \in DOMAIN view
        /\ view[m].status \in {"failed", "queued"}
        /\ \E a \in TurnAnchors(view) : m \in NavigableUsers(view, a)

\* the status and retry count the list shows for m in the next state are new in this step
C15_ShownAnew(m) ==
  \/ m \notin DOMAIN view
  \/ view'[m].status # view[m].status
  \/ view'[m].rc # view[m].rc

C16_Answered(m) ==
  \E a \in RepliesTo(m) : db[a].parent = AnchorOf(db[m].parent, m)

\* C16: whenever the persisted status of a user message is 'sent', an assistant reply
\* produced by that delivery is already in the store under the message's anchor, and a
\* message that has reached 'sent' never changes status afterwards.
C16_SentMeansAnswered ==
  /\ [](\A m \in UserIds : db[m].status = "sent" => C16_Answered(m))
  /\ [][\A m \in UserIds : db[m].status = "sent" => db'[m].status = "sent"]_vars

\* ---------------------------------------------------------------- properties of the turn view
\* the list on the screen as a table, and the version lists of an anchor before pairing
Shown == ListView(rawMessages)
AllUsers(a) == TurnUserVersions(Shown, a)
AllAssistants(a) == TurnAssistantVersions(Shown, a)

\* C17: for every message list and every turn the turn builder produces, the exposed
\* user-version list and the exposed assistant-version list have the same length
\* whenever both are non-empty.
C17_PairedLengths ==
  \A k \in DOMAIN turns :
     (Len(turns[k].userVersions) > 0 /\ Len(turns[k].assistantVersions) > 0) =>
        Len(turns[k].userVersions) = Len(turns[k].assistantVersions)

\* a turn with more user versions than assistant versions is exposed as aligned pairs
C17_Witness ==
  \E k \in DOMAIN turns :
     /\ Len(AllUsers(turns[k].anchorUserId)) > Len(AllAssistants(turns[k].anchorUserId))
     /\ Len(turns[k].assistantVersions) > 0
     /\ Len(turns[k].userVersions) = Len(turns[k].assistantVersions)

\* C18: for each turn, with both version lists in ascending creation order and
\* p = min(number of user versions, number of assistant versions): if p > 0 the exposed
\* lists are the first p entries of each list, if p = 0 both lists are exposed unchanged,
\* and the default index is the last exposed assistant index when an assistant version
\* is exposed and 0 otherwise.
C18_TruncateToPairs ==
  \A k \in DOMAIN turns :
     LET U == AllUsers(turns[k].anchorUserId)
         A == AllAssistants(turns[k].anchorUserId)
         p == IF Len(U) < Len(A) THEN Len(U) ELSE Len(A)
     IN /\ \A i \in 1..(Len(U) - 1) : U[i] < U[i + 1]
        /\ \A i \in 1..(Len(A) - 1) : A[i] < A[i + 1]
        /\ p > 0 => /\ turns[k].userVersions = SubSeq(U, 1, p)
                    /\ turns[k].assistantVersions = SubSeq(A, 1, p)
        /\ p = 0 => /\ turns[k].userVersions = U
                    /\ turns[k].assistantVersions = A
        /\ turns[k].defaultIndex =
             IF Len(turns[k].assistantVersions) > 0
             THEN Len(turns[k].assistantVersions) - 1
             ELSE 0

\* a turn has three user versions and two assistant versions and is exposed as two
\* pairs with default index 1
C18_Witness ==
  \E k \in DOMAIN turns :
     /\ Len(AllUsers(turns[k].anchorUserId)) = 3
     /\ Len(AllAssistants(turns[k].anchorUserId)) = 2
     /\ Len(turns[k].userVersions) = 2
     /\ Len(turns[k].assistantVersions) = 2
     /\ turns[k].defaultIndex = 1

\* the anchor id that position k of the list shows (a parent-less user message) or
\* refers to (a parent id); 0 for a parent-less assistant message
C19_AnchorAt(k) ==
  IF rawMessages[k].parent # 0 THEN rawMessages[k].parent
  ELSE IF rawMessages[k].role = "user" THEN rawMessages[k].id ELSE 0

\* the first position of the list at which anchor id a is seen
C19_FirstSeen(a) ==
  CHOOSE k \in DOMAIN rawMessages :
     /\ C19_AnchorAt(k) = a
     /\ \A j \in 1..(k - 1) : C19_AnchorAt(j) # a

\* a is the id of a parent-less user message of the list (otherwise the anchor is synthetic)
C19_Real(a) ==
  \E k \in DOMAIN rawMessages :
     rawMessages[k].id = a /\ rawMessages[k].role = "user" /\ rawMessages[k].parent = 0

\* the first position of the list that refers to a as its parent
C19_FirstRef(a) ==
  CHOOSE k \in DOMAIN rawMessages :
     /\ rawMessages[k].parent = a
     /\ \A j \in 1..(k - 1) : rawMessages[j].parent # a

\* the position of the message with id a
C19_Position(a) == CHOOSE k \in DOMAIN rawMessages : rawMessages[k].id = a

\* message id i is among the exposed versions of turn k
C19_InTurn(i, k) ==
  \/ \E n \in DOMAIN turns[k].userVersions : turns[k].userVersions[n] = i
  \/ \E n \in DOMAIN turns[k].assistantVersions : turns[k].assistantVersions[n] = i

\* exactly one turn per anchor id, and every message with a parent id is attached to the
\* turn of that parent id (exposed there unless the pairing cut its side of the turn
\* short) and to no other turn
C19_OneTurnEach ==
  /\ {turns[k].anchorUserId : k \in DOMAIN turns} =
        {C19_AnchorAt(k) : k \in DOMAIN rawMessages} \ {0}
  /\ \A i, j \in DOMAIN turns : turns[i].anchorUserId = turns[j].anchorUserId => i = j
  /\ \A n \in DOMAIN rawMessages :
        rawMessages[n].parent # 0 =>
           /\ \A k \in DOMAIN turns :
                 C19_InTurn(rawMessages[n].id, k) =>
                    turns[k].anchorUserId = rawMessages[n].parent
           /\ \E k \in DOMAIN turns :
                 /\ turns[k].anchorUserId = rawMessages[n].parent
                 /\ \/ C19_InTurn(rawMessages[n].id, k)
                    \/ Len(AllUsers(turns[k].anchorUserId)) #
                          Len(AllAssistants(turns[k].anchorUserId))

\* C19 as stated: the turn builder yields exactly one turn per anchor id, the turns are
\* ordered by the position at which each anchor id is first seen in the list (a reference
\* to an anchor not seen so far takes the slot at that point), and every message with a
\* parent id is attached to the turn of that parent id and to no other.
C19_FirstSeenOrder_AsStated ==
  /\ C19_OneTurnEach
  /\ \A i, j \in DOMAIN turns :
        i < j => C19_FirstSeen(turns[i].anchorUserId) < C19_FirstSeen(turns[j].anchorUserId)

\* C19 amended: the turn builder yields exactly one turn per anchor id; the turns of the
\* parent-less user messages come first, in list order, and the turns of the anchor ids
\* that are only referred to (synthetic anchors) follow, in the order of their first
\* reference; every message with a parent id is attached to the turn of that parent id
\* and to no other.
C19_AnchorsThenReferences ==
  /\ C19_OneTurnEach
  /\ \A i, j \in DOMAIN turns :
        i < j =>
          LET a == turns[i].anchorUserId
              b == turns[j].anchorUserId
          IN IF C19_Real(a)
             THEN C19_Real(b) => C19_Position(a) < C19_Position(b)
             ELSE ~C19_Real(b) /\ C19_FirstRef(a) < C19_FirstRef(b)

\* the list refers to a synthetic anchor before it shows a later parent-less user
\* message, and the turn of that user message is placed before the synthetic one
C19_Witness ==
  \E i, j \in DOMAIN turns :
     /\ i < j
     /\ C19_Real(turns[i].anchorUserId)
     /\ ~C19_Real(turns[j].anchorUserId)
     /\ C19_FirstRef(turns[j].anchorUserId) < C19_Position(turns[i].anchorUserId)

\* totalVersions of turn k as the turn is rendered: assistantVersions.length || 1
C20_TotalVersions(k) ==
  IF Len(turns[k].assistantVersions) > 0 THEN Len(turns[k].assistantVersions) ELSE 1

C29_NoOpKeepsMap ==
  \A k \in DOMAIN turns, direction \in {"prev", "next"} :
     LET a == turns[k].anchorUserId
         total == C20_TotalVersions(k)
         current == IF a \in DOMAIN turnVersionIndices
                    THEN turnVersionIndices[a]
                    ELSE total - 1
         wanted == IF direction = "prev" THEN current - 1 ELSE current + 1
         clamped == IF wanted < 0 THEN 0 ELSE IF wanted > total - 1 THEN total - 1 ELSE wanted
     IN (total <= 1 \/ clamped = current) =>
           handleTurnVersionChange(turnVersionIndices, a, direction, total)
              = turnVersionIndices

\* a turn with several versions stands at its first version, where prev is a no-op,
\* while a turn with a single version and a turn with no stored index are on the screen
C29_Witness ==
  /\ \E k \in DOMAIN turns :
        /\ C20_TotalVersions(k) > 1
        /\ turns[k].anchorUserId \in DOMAIN turnVersionIndices
        /\ turnVersionIndices[turns[k].anchorUserId] = 0
  /\ \E k \in DOMAIN turns :
        /\ C20_TotalVersions(k) = 1
        /\ turns[k].anchorUserId \notin DOMAIN turnVersionIndices

\* C28: every user message is created with status 'sending' and retry count 0, every
\* assistant message is created with status 'sent', and no operation changes the status
\* of an assistant message: in every reachable state all assistant messages are 'sent'.
C28_AssistantAlwaysSent ==
  /\ [](\A a \in DOMAIN db : db[a].role = "assistant" => db[a].status = "sent")
  /\ [][\A i \in DOMAIN db' \ DOMAIN db :
           /\ db'[i].role = "user" => (db'[i].status = "sending" /\ db'[i].rc = 0)
           /\ db'[i].role = "assistant" => db'[i].status = "sent"]_vars

\* a reply is in the store while the statuses of user messages have been rewritten: the
\* answered message is 'sent' and another user message is 'queued'
C28_Witness ==
  /\ \E a \in DOMAIN db : db[a].role = "assistant" /\ db[a].status = "sent"
  /\ \E m \in UserIds : db[m].status = "sent"
  /\ \E m \in UserIds : db[m].status = "queued" /\ db[m].session = OpenSession

\* the messages pass p still has to attempt, the one in hand first
C25_Pending(p) ==
  IF tasks[p].pc = "idle" THEN <<>>
  ELSE <<tasks[p].id>> \o [k \in 1..Len(passes[p].snap) |-> passes[p].snap[k].id]

\* C25: within one replay pass the selected messages are exactly those with role user
\* and status 'queued' when the queue is read; they are attempted in ascending creation
\* order; and one at a time: the pass turns to the next message only in the step in which
\* the attempt of the previous one has finished and its result is in the store.
C25_OldestFirstOneAtATime ==
  /\ [](\A p \in PassSlots :
          \A i, j \in DOMAIN C25_Pending(p) : i < j => C25_Pending(p)[i] < C25_Pending(p)[j])
  /\ [][\A p \in PassSlots :
          /\ ReplayList(p) =>
               LET queued == {i \in DOMAIN db : db[i].role = "user" /\ db[i].status = "queued"}
               IN IF queued = {}
                  THEN tasks'[p].pc = "idle" /\ passes'[p].pc = "idle"
                  ELSE /\ tasks'[p].pc = "mark"
                       /\ {tasks'[p].id} \cup
                            {passes'[p].snap[k].id : k \in DOMAIN passes'[p].snap} = queued
          /\ (tasks[p].pc # "idle" /\ tasks'[p].pc # "idle" /\ tasks'[p].id # tasks[p].id) =>
               /\ tasks'[p].id = passes[p].snap[1].id
               /\ tasks'[p].pc = "mark"
               /\ passes'[p].snap = Tail(passes[p].snap)
               /\ \/ /\ tasks[p].pc = "flight"
                     /\ db'[tasks[p].id].status \in {"queued", "failed"}
                  \/ /\ tasks[p].pc = "store"
                     /\ \/ \E a \in DOMAIN db' \ DOMAIN db :
                             db'[a].role = "assistant" /\ db'[a].replyTo = tasks[p].id
                        \/ db'[tasks[p].id].status = "failed"]_vars

\* a pass has delivered the oldest queued message and its call for a later message of its
\* snapshot is in flight
C25_Witness ==
  \E p \in PassSlots :
     /\ tasks[p].pc = "flight"
     /\ \E m \in UserIds :
          /\ m < tasks[p].id
          /\ db[m].session = OtherSession
          /\ db[m].status = "sent"
          /\ RepliesTo(m) # {}

\* C24: with the network reachable in the end, the service answering, connectivity events
\* coming and the process free to stop and restart, every persisted text user message
\* eventually reaches status 'sent' or 'failed'; a message that is 'sending' in the store
\* when the process stops, or 'queued' while the device is reachable, does not stay so.
C24_EventuallySettled ==
  \A m \in MsgIds :
     (m \in DOMAIN db /\ db[m].role = "user")
        ~> (m \in DOMAIN db /\ db[m].status \in {"sent", "failed"})

\* ---------------------------------------------------------------- C21
\* C21: when chatDb.deleteMessage(anchorId) has returned, the rows that are gone are
\* exactly the row with that id and the rows whose parent_message_id is that id; every
\* other row, of whatever session, is what it was before the call, and so are the session
\* and image rows.
C21_DeleteRemovesExactlyTheTurn ==
  (call.op = "deleteTurn" /\ call.pc = "done" /\ call.result = "ok") =>
    LET old == call.before.db
        gone == {i \in DOMAIN old : i = call.id \/ old[i].parent = call.id}
    IN /\ DOMAIN db = DOMAIN old \ gone
       /\ \A i \in DOMAIN db : db[i] = old[i]
       /\ sessions = call.before.sessions
       /\ images = call.before.images

\* a turn of an anchor and at least one version was deleted and another message is left
C21_Witness ==
  /\ call.op = "deleteTurn" /\ call.pc = "done" /\ call.result = "ok"
  /\ call.id \in DOMAIN call.before.db
  /\ \E i \in DOMAIN call.before.db : call.before.db[i].parent = call.id
  /\ DOMAIN db # {}

\* ---------------------------------------------------------------- C22
\* C22: when chatDb.deleteMessage(anchorId) has failed, the store holds what it held
\* before the call.
C22_FailedDeleteLeavesStoreAsBefore ==
  (call.op = "deleteTurn" /\ call.pc = "done" /\ call.result = "error") =>
    db = call.before.db

\* ---------------------------------------------------------------- C23
\* C23: whenever no operation is in progress, every stored message with a
\* parent_message_id points to a stored user message that has none, and every assistant
\* message has a parent_message_id.
C23_FlatGrouping ==
  CallFree =>
    \A m \in DOMAIN db :
      /\ db[m].parent # 0 =>
           /\ db[m].parent \in DOMAIN db
           /\ db[db[m].parent].role = "user"
           /\ db[db[m].parent].parent = 0
      /\ db[m].role = "assistant" => db[m].parent # 0

\* ---------------------------------------------------------------- C26
\* C26: when chatDb.deleteSession(s) has returned, the session row of s, every message of
\* s and every image row of s are gone, the image rows handed back are the image rows s
\* had, and every row of every other session is what it was before the call.
C26_DeleteSessionRemovesItsRecords ==
  (call.op = "deleteSession" /\ (call.pc = "remote" \/ call.result = "ok")) =>
    LET old == call.before
        s == call.session
    IN /\ sessions = Restrict(old.sessions, DOMAIN old.sessions \ {s})
       /\ db = Restrict(old.db, {i \in DOMAIN old.db : old.db[i].session # s})
       /\ images = Restrict(old.images, {i \in DOMAIN old.images : old.images[i].session # s})
       /\ call.imgs = {i \in DOMAIN old.images : old.images[i].session = s}

\* a session with a message and an image was deleted while another session had a message
C26_Witness ==
  /\ call.op = "deleteSession" /\ call.pc = "done" /\ call.result = "ok"
  /\ call.imgs # {}
  /\ \E i \in DOMAIN call.before.db : call.before.db[i].session = call.session
  /\ \E i \in DOMAIN db : db[i].session # call.session
  /\ DOMAIN sessions # {}

\* ---------------------------------------------------------------- C27
\* C27: the step in which deleteSessionWithImages learns the outcome of the remote
\* cleanup, success or failure, changes no local row: the session, its messages and its
\* image rows stay deleted, and the call reports success.
C27_RemoteFailureIsNotFatal ==
  [][(\E remoteOk \in BOOLEAN : DeleteBackendSession(remoteOk)) =>
       /\ call'.result = "ok"
       /\ sessions' = sessions /\ db' = db /\ images' = images
       /\ call.session \notin DOMAIN sessions'
       /\ \A i \in DOMAIN db' : db'[i].session # call.session
       /\ \A i \in DOMAIN images' : images'[i].session # call.session]_vars

\* a session that had a message and a remote context was deleted and the remote cleanup failed
C27_Witness ==
  /\ call.op = "deleteSession" /\ call.pc = "done" /\ call.result = "ok"
  /\ ~call.backendCleared
  /\ call.session \in remote
  /\ \E i \in DOMAIN call.before.db : call.before.db[i].session = call.session
  /\ call.session \notin DOMAIN sessions

\* ---------------------------------------------------------------- C30
\* C30: when the title request of a send fails (the request throws, or the write of the
\* title throws) for a session that has the default title, the send flow ends without an
\* error, the session keeps the default title, and no message row and no list entry changes.
C30_TitleFailureIsNotFatal ==
  [][\A outcome \in {"requestFails", "writeFails"} :
       (/\ EnsureSessionHasTitle(outcome)
        /\ call.session \in DOMAIN sessions
        /\ sessions[call.session].title = DEFAULT_TITLE) =>
          /\ call'.result = "ok"
          /\ sessions' = sessions
          /\ db' = db
          /\ view' = view
          /\ loading' = FALSE]_vars

\* a text send was delivered and answered, and its session still has the default title
C30_Witness ==
  /\ call.op = "send" /\ call.pc = "done" /\ call.result = "ok"
  /\ call.session \in DOMAIN sessions
  /\ sessions[call.session].title = DEFAULT_TITLE
  /\ call.id \in DOMAIN db
  /\ db[call.id].status = "sent"
  /\ \E a \in DOMAIN db : db[a].role = "assistant" /\ db[a].parent = call.id

\* ---------------------------------------------------------------- C33
\* C33: in every reachable state, in the store and in the list of the screen, the
\* retry_count of a user message lies in 0..MAX_AUTO_RETRY, a queued message has a
\* retry_count below MAX_AUTO_RETRY, and a sent message has retry_count 0.
C33_RetryCountRange ==
  /\ \A m \in UserIds :
       /\ db[m].rc \in 0..MAX_AUTO_RETRY
       /\ db[m].status = "queued" => db[m].rc < MAX_AUTO_RETRY
       /\ db[m].status = "sent" => db[m].rc = 0
  /\ \A m \in DOMAIN view :
       view[m].role = "user" =>
         /\ view[m].rc \in 0..MAX_AUTO_RETRY
         /\ view[m].status = "queued" => view[m].rc < MAX_AUTO_RETRY
         /\ view[m].status = "sent" => view[m].rc = 0

\* the ceiling was reached by one message, and a message of the open session was
\* delivered
C33_Witness ==
  /\ \E m \in UserIds : db[m].status = "failed" /\ db[m].rc = MAX_AUTO_RETRY
  /\ \E m \in UserIds : db[m].status = "sent" /\ db[m].rc = 0 /\ db[m].session = OpenSession

\* ---------------------------------------------------------------- C34
\* C34: the list of messages a running replay pass still has to attempt (the one in hand,
\* then the rest of the snapshot taken when the pass started) only ever loses its first
\* element: no message enters it during the pass, in particular not one that the pass has
\* attempted and that was queued again; a call is issued only for the first element, and
\* once its call is out the pass never marks that message again. With every call
\* answered, a pass that has started ends.
C34_SnapshotOnlyShrinks ==
  /\ [][\A p \in PassSlots :
          passes[p].pc = "running" =>
            /\ C25_Pending(p)' \in {C25_Pending(p), Tail(C25_Pending(p)), <<>>}
            /\ (tasks[p].pc \in {"flight", "store"} /\ tasks'[p].pc = "mark") =>
                 C25_Pending(p)' = Tail(C25_Pending(p))
            /\ (tasks[p].pc = "flight" /\ tasks'[p] # tasks[p]
                  /\ db'[tasks[p].id].status = "queued") =>
                 \A k \in DOMAIN C25_Pending(p)' : C25_Pending(p)'[k] # tasks[p].id]_vars
  /\ \A p \in PassSlots : (passes[p].pc # "idle") ~> (passes[p].pc = "idle")

\* a pass is at a later message of its snapshot while an earlier message, which a failed
\* attempt has queued again, is not on its list
C34_Witness ==
  \E p \in PassSlots :
     /\ passes[p].pc = "running"
     /\ tasks[p].pc # "idle"
     /\ \E m \in UserIds :
          /\ m < tasks[p].id
          /\ db[m].status = "queued"
          /\ db[m].rc >= 1
          /\ \A k \in DOMAIN C25_Pending(p) : C25_Pending(p)[k] # m

\* ---------------------------------------------------------------- C35
\* C35: when a send with images has failed, the user row of the attempt is not in the
\* store, the image rows are those the store held before the attempt, and no row of the
\* attempt is queued or failed.
C35_FailedImageSendIsRolledBack ==
  (call.op = "image" /\ call.pc = "done" /\ call.result = "alerted") =>
    /\ call.id \notin DOMAIN db
    /\ DOMAIN images = DOMAIN call.before.images
    /\ \A m \in DOMAIN db \ DOMAIN call.before.db : db[m].status \notin {"queued", "failed"}

\* ---------------------------------------------------------------- C36
\* turn rendering: currentIndex, the stored index of the turn or else its defaultIndex
C36_CurrentIndex(a) ==
  IF a \in DOMAIN turnVersionIndices THEN turnVersionIndices[a] ELSE DefaultIndex(view, a)

\* C36: for every turn the screen renders, the index it is displayed at lies in
\* 0..totalVersions-1 (0 when the turn has no assistant version) and is an index of both
\* exposed lists, so that the user and the assistant version shown are the ones at that
\* index and not the fallback to the first version.
C36_DisplayIndexValid ==
  \A a \in TurnAnchors(view) :
    Len(SafeUserVersions(view, a)) > 0 =>
      /\ C36_CurrentIndex(a) \in 0..(TotalVersions(view, a) - 1)
      /\ C36_CurrentIndex(a) + 1 <= Len(SafeUserVersions(view, a))
      /\ Len(SafeAssistantVersions(view, a)) > 0 =>
           C36_CurrentIndex(a) + 1 <= Len(SafeAssistantVersions(view, a))

\* ---------------------------------------------------------------- C31
\* C31: in every turn built from the list of the screen, the assistant version exposed at
\* an index is the reply whose generation was asked for with the user version exposed at
\* the same index.
C31_PairedByIndex ==
  \A a \in TurnAnchors(view) :
    \A k \in 1..Min(Len(SafeUserVersions(view, a)), Len(SafeAssistantVersions(view, a))) :
      /\ SafeAssistantVersions(view, a)[k] \in DOMAIN db
      /\ db[SafeAssistantVersions(view, a)[k]].replyTo = SafeUserVersions(view, a)[k]

\* ---------------------------------------------------------------- C32
\* resendUserMessage is waiting for callNonStreamChat (line 186): the screen stays usable
\* and the store takes other statements meanwhile
DeliveryInFlight == call.pc = "flight" /\ call.op \in {"send", "edit", "retry"}

\* handleDeleteMessage(aiMsg) while a delivery is waiting for its reply (the handler does
\* not look at `loading`): chatDb.deleteMessage(anchorId) runs both statements and the list
\* of the session is loaded again
DeleteTurnInFlight(msg) ==
  /\ DeliveryInFlight
  /\ seq.calls < MaxCalls
  /\ msg \in DisplayedAssistants(view)
  /\ db' = deleteMessage(db, DeleteAnchorOf(view, msg))
  /\ view' = listMessages(db', currentSessionId)
  /\ seq' = [seq EXCEPT !.calls = @ + 1]
  /\ UNCHANGED <<nextId, currentSessionId, loading, sessions, images, remote, call, elsewhere>>

\* SessionListScreen.handleDelete -> deleteSessionWithImages(s) while a delivery is waiting
\* for its reply: the three statements of chatDb.deleteSession, the remote cleanup, the
\* refreshed session list and the reset of the screen whose session is gone
DeleteSessionInFlight(s, remoteOk) ==
  /\ DeliveryInFlight
  /\ seq.calls < MaxCalls
  /\ s \in DOMAIN sessions
  /\ remoteOk \in BOOLEAN
  /\ images' = DeleteImagesOf(images, s)
  /\ db' = DeleteMessagesOf(db, s)
  /\ sessions' = DeleteSessionRow(sessions, s)
  /\ remote' = IF remoteOk THEN remote \ {s} ELSE remote
  /\ LET gone == /\ currentSessionId # 0
                 /\ DOMAIN sessions' # {}
                 /\ currentSessionId \notin DOMAIN sessions'
     IN /\ currentSessionId' = IF gone THEN 0 ELSE currentSessionId
        /\ view' = IF gone THEN <<>> ELSE view
  /\ seq' = [seq EXCEPT !.calls = @ + 1]
  /\ UNCHANGED <<nextId, loading, call, elsewhere>>

\* the store and the screens, with deletions that arrive while a delivery is in flight
NextInFlight ==
  \/ NextStore
  \/ \E msg \in 1..MaxMsgs : DeleteTurnInFlight(msg)
  \/ \E s \in 1..MaxSessions, remoteOk \in BOOLEAN : DeleteSessionInFlight(s, remoteOk)

SpecInFlight == InitStore /\ [][NextInFlight]_vars

\* C32: an assistant row that a step inserts names an anchor that is a row of the store
\* and a session that is a row of the store, also when a turn or a session was deleted
\* while its delivery was in flight.
C32_NoDanglingReply ==
  [][\A i \in DOMAIN db' \ DOMAIN db :
       db'[i].role = "assistant" =>
         /\ db'[i].parent \in DOMAIN db'
         /\ db'[i].session \in DOMAIN sessions']_vars

====
